---- MODULE Spec2Model ----
(***************************************************************************)
(* The ALM engine (src/ALM/ALM.py) and the parameter dialog               *)
(* (src/dialog_parameters.py) as a state machine.                         *)
(*                                                                         *)
(* Numbers.  The engine computes in binary floating point.  Here every     *)
(* number is an integer in a fixed unit:                                   *)
(*   - an amount of money is a whole number of currency units;             *)
(*   - a rate, factor or ratio is a whole number of millionths             *)
(*     (RateScale), so 0.035 is 35000 and a deflator of 1 is 1000000;      *)
(*   - a number of contracts in force is a whole number of                 *)
(*     ten-thousandths of a contract (CountScale).                         *)
(* Sums and differences are exact at this unit; a product or quotient is   *)
(* rounded toward zero to the unit of its result, in the order the source  *)
(* evaluates it.  The binary rounding of a floating-point difference lies  *)
(* far below the unit; where a property depends on it (the surplus columns *)
(* of the asset-liability report) the call records which columns were      *)
(* rounded (see Commit).                                                   *)
(***************************************************************************)
EXTENDS Integers, Sequences, FiniteSets, TLC

\* ------------------------------------------------------------------------
\* Bounds of the model
\* ------------------------------------------------------------------------
\* the longest horizon (contracts_maturity) an engine is constructed with
MaxMaturity == 3
\* how many configuration changes (assignment, dialog) and reloads
\* of market data a run makes
MaxChanges == 1
\* how many engine methods a run calls
MaxCalls == 2
\* the standard-normal draws of np.random.normal(0, 1) lie in -MaxShock..MaxShock
MaxShock == 1

\* ------------------------------------------------------------------------
\* Fixed-point arithmetic
\* ------------------------------------------------------------------------
MaxInt == 2^30 + (2^30 - 1)
RateScale == 10^6
CountScale == 10^4

Abs(x) == IF x < 0 THEN -x ELSE x
Sgn(x) == IF x < 0 THEN -1 ELSE IF x = 0 THEN 0 ELSE 1
Max(a, b) == IF a >= b THEN a ELSE b
Min(a, b) == IF a <= b THEN a ELSE b

\* <<q, r>> with a*b = q*c + r and 0 <= r < c, for naturals a, b and c > 0,
\* computed bit by bit so that no intermediate exceeds MaxInt
\* <<q, r>> doubled: <<2q, 2r>> brought back to 0 <= r < c
Doubled(h, c) ==
    IF h[2] >= c - h[2] THEN <<2 * h[1] + 1, h[2] - (c - h[2])>> ELSE <<2 * h[1], 2 * h[2]>>

\* <<q, r>> with a added to q*c + r
Added(h, a, c) ==
    IF h[2] >= c - (a % c) THEN <<h[1] + (a \div c) + 1, h[2] - (c - (a % c))>>
    ELSE <<h[1] + (a \div c), h[2] + (a % c)>>

RECURSIVE MulDivRem(_, _, _)
MulDivRem(a, b, c) ==
    IF b = 0 THEN <<0, 0>>
    ELSE IF b % 2 = 0 THEN Doubled(MulDivRem(a, b \div 2, c), c)
    ELSE Added(Doubled(MulDivRem(a, b \div 2, c), c), a, c)

\* x*y/z for naturals x >= y and z > 0: directly when x*y fits, by the quotient
\* and the remainder of x by z when that fits, bit by bit otherwise
MulDivNat(x, y, z) ==
    IF y = 0 THEN 0
    ELSE IF y <= MaxInt \div x THEN (x * y) \div z
    ELSE IF x % z = 0 THEN (x \div z) * y
    ELSE IF y <= MaxInt \div (x % z) THEN (x \div z) * y + ((x % z) * y) \div z
    ELSE MulDivRem(x, y, z)[1]

\* a*b/c rounded toward zero
MulDiv(a, b, c) ==
    Sgn(a) * Sgn(b) * Sgn(c) * MulDivNat(Max(Abs(a), Abs(b)), Min(Abs(a), Abs(b)), Abs(c))

\* the decimal n/d as a rate
Dec(n, d) == (n * RateScale) \div d
One == RateScale

\* x * r / RateScale for naturals x = x1 * RateRoot + x0 and r = r1 * RateRoot + r0,
\* by thousands (RateScale = RateRoot^2)
RateRoot == 10^3
MulRParts(x1, x0, r1, r0) ==
    x1 * r1 + (x1 * r0) \div RateRoot + (x0 * r1) \div RateRoot
      + (((x1 * r0) % RateRoot) + ((x0 * r1) % RateRoot) + (x0 * r0) \div RateRoot) \div RateRoot

\* x * r, r a rate: the unit of x is kept
MulR(x, r) ==
    Sgn(x) * Sgn(r) * MulRParts(Abs(x) \div RateRoot, Abs(x) % RateRoot,
                                Abs(r) \div RateRoot, Abs(r) % RateRoot)
\* x / r, r a rate: the unit of x is kept
DivR(x, r) == MulDiv(x, RateScale, r)
\* x / y as a rate, x and y in the same unit
Ratio(x, y) == MulDiv(x, RateScale, y)

Sq(r) == MulR(r, r)

\* r ** k for a rate r and a natural k, by repeated squaring
RECURSIVE PowR(_, _)
PowR(r, k) ==
    IF k = 0 THEN One
    ELSE IF k = 1 THEN r
    ELSE IF k % 2 = 0 THEN Sq(PowR(r, k \div 2))
    ELSE MulR(Sq(PowR(r, k \div 2)), r)

\* the greatest rate y in lo..hi with y ** k <= x (hi ** k > x is not required)
RECURSIVE RootSearch(_, _, _, _)
RootSearch(x, k, lo, hi) ==
    IF lo >= hi THEN lo
    ELSE IF PowR(lo + (hi - lo + 1) \div 2, k) <= x
    THEN RootSearch(x, k, lo + (hi - lo + 1) \div 2, hi)
    ELSE RootSearch(x, k, lo, lo + (hi - lo + 1) \div 2 - 1)

\* x ** (1/k) for a rate x >= 0 and k >= 1: between 1 and 1 + (x - 1)/k when
\* x >= 1, between x and 1 otherwise
RootR(x, k) ==
    IF k = 1 THEN x
    ELSE RootSearch(x, k, Min(x, One), IF x >= One THEN One + (x - One) \div k + 1 ELSE One)

\* sequences as numpy arrays, index 0 first: a[t] of the source is At(a, t)
At(a, t) == a[t + 1]
Zeros(n) == [i \in 1..n |-> 0]
\* a numpy array of n entries: every entry is computed once, when the array is built
Array(f, n) == SubSeq(f, 1, n)
RECURSIVE SumSeq(_)
SumSeq(a) == IF a = <<>> THEN 0 ELSE a[1] + SumSeq(Tail(a))

\* ------------------------------------------------------------------------
\* PortfolioConfig: the class-level attributes of ALM
\* ------------------------------------------------------------------------
ClassDefaults ==
    [ opening_year            |-> 2015,
      insured_number          |-> 10000,
      insured_premium         |-> 50000,
      average_age             |-> 45,
      contracts_maturity      |-> 20,
      charges_rate            |-> Dec(15, 1000),
      fee_pct_premium         |-> Dec(25, 1000),
      fixed_fee               |-> 500,
      fixed_cost_inflation    |-> Dec(25, 1000),
      redemption_rates        |-> Dec(5, 100),
      guaranteed_minimum_rate |-> Dec(25, 1000),
      regu_distrib_tech_res   |-> Dec(85, 100),
      regu_distrib_fin_prod   |-> Dec(75, 100),
      contra_distrib_fin_prod |-> Dec(80, 100),
      repurchase_rate         |-> Dec(3, 100),
      initial_fp_percentage   |-> Dec(60, 100),
      risk_adjustment         |-> 50000,
      capital_reserve         |-> 500000,
      ppe                     |-> 100000,
      tax_rate                |-> Dec(22, 100),
      nominal                 |-> 1000000,
      coupon_rate             |-> Dec(35, 1000),
      bonds_initial_mv        |-> 950000,
      bonds_initial_vnc       |-> 980000,
      alloc_bonds             |-> Dec(60, 100),
      alloc_stocks            |-> Dec(30, 100),
      alloc_cash              |-> Dec(10, 100),
      stocks_initial_mv       |-> 1200000,
      stocks_initial_vnc      |-> 1100000 ]

\* a dictionary of overrides applied on top of a configuration (setattr per key)
ApplyOverrides(c, d) == [f \in DOMAIN c |-> IF f \in DOMAIN d THEN d[f] ELSE c[f]]

\* ------------------------------------------------------------------------
\* Inputs: constructor overrides, assignments, files
\* ------------------------------------------------------------------------
Merge(d1, d2) ==
    [f \in DOMAIN d1 \cup DOMAIN d2 |-> IF f \in DOMAIN d2 THEN d2[f] ELSE d1[f]]

\* the keyword arguments of ALM(...): a horizon and a portfolio size, and with
\* the longest horizon also an allocation that does not sum to 1, an allocation
\* with nothing in bonds and stocks, no fees, charges and surrenders, or every
\* contract surrendered each year
ConstructorOverrides ==
    LET base(m) == [contracts_maturity |-> m, insured_number |-> 1000]
    IN  { base(m) : m \in 1..MaxMaturity }
          \cup { Merge(base(MaxMaturity), a) :
                   a \in { [ alloc_bonds |-> Dec(50, 100), alloc_stocks |-> Dec(30, 100),
                             alloc_cash |-> Dec(10, 100) ],
                           [alloc_bonds |-> 0, alloc_stocks |-> 0, alloc_cash |-> One],
                           [fixed_fee |-> 0, charges_rate |-> 0, redemption_rates |-> 0],
                           [redemption_rates |-> One] } }

\* A time-series file: rows keyed by date (the year of a row dated 1 January),
\* columns in file order.  A mortality file: rows keyed by age.  The files are
\* forward rates with a volatility column, rates of two dates two years apart
\* and one maturity, a mortality table with no deaths, a mortality table of 1%
\* a year with the 47 rows of the ages 20 to 66, a file of dates without any
\* rate column, and a file that is missing or cannot be read
Files ==
    [ rates4 |->
        [ kind  |-> "rates",
          index |-> <<2015, 2016, 2017, 2018>>,
          names |-> <<"1Y", "5Y", "5Y_Vol", "10Y">>,
          col   |-> [ 1Y     |-> <<Dec(10, 1000), Dec(12, 1000), Dec(13, 1000), Dec(15, 1000)>>,
                      5Y     |-> <<Dec(20, 1000), Dec(21, 1000), Dec(22, 1000), Dec(23, 1000)>>,
                      5Y_Vol |-> <<Dec(12, 1000), Dec(12, 1000), Dec(15, 1000), Dec(15, 1000)>>,
                      10Y    |-> <<Dec(30, 1000), Dec(28, 1000), Dec(27, 1000), Dec(26, 1000)>> ] ],
      rates2 |->
        [ kind  |-> "rates",
          index |-> <<2015, 2017>>,
          names |-> <<"1Y">>,
          col   |-> [ 1Y |-> <<Dec(5, 1000), Dec(40, 1000)>> ] ],
      mort0 |->
        [ kind  |-> "mortality",
          index |-> [i \in 1..100 |-> i - 1],
          names |-> <<"Qx", "Px">>,
          col   |-> [ Qx |-> [i \in 1..100 |-> 0], Px |-> [i \in 1..100 |-> One] ] ],
      mort47 |->
        [ kind  |-> "mortality",
          index |-> [i \in 1..47 |-> i + 19],
          names |-> <<"Qx", "Px">>,
          col   |-> [ Qx |-> [i \in 1..47 |-> Dec(1, 100)],
                      Px |-> [i \in 1..47 |-> Dec(99, 100)] ] ],
      dates |-> [kind |-> "rates", index |-> <<2015, 2016>>, names |-> <<>>, col |-> <<>>],
      missing |-> [kind |-> "unreadable", index |-> <<>>, names |-> <<>>, col |-> <<>>] ]

\* alm.load_data_from_file(file, data_type) on an instance in use: each of the
\* four data types, and a file that cannot be read
Loads ==
    { <<Files.rates4, "forward_rates">>,
      <<Files.rates2, "forward_rates">>,
      <<Files.mort0, "mortality_table">>,
      <<Files.mort47, "mortality_table">>,
      <<Files.dates, "forward_rates">>,
      <<Files.missing, "forward_rates">>,
      <<Files.rates2, "liquidity_premium">>,
      <<Files.rates2, "repurchase_rates">> }

\* data_files as the window finds them under input/: the four data types in
\* the order of the dictionary, each with the file at its path.  Every file
\* in place with one or the other of the rate and mortality files, forward
\* rates without a rate column, and one of the four files missing
Directories ==
    { << <<"forward_rates", d[1]>>, <<"liquidity_premium", d[2]>>,
         <<"mortality_table", d[3]>>, <<"repurchase_rates", d[4]>> >> :
        d \in { <<Files.rates4, Files.rates2, Files.mort47, Files.rates2>>,
                <<Files.rates4, Files.rates2, Files.mort0, Files.rates2>>,
                <<Files.rates2, Files.rates2, Files.mort0, Files.rates2>>,
                <<Files.rates2, Files.rates2, Files.mort47, Files.rates2>>,
                <<Files.dates, Files.rates2, Files.mort47, Files.rates2>>,
                <<Files.missing, Files.rates2, Files.mort47, Files.rates2>>,
                <<Files.rates4, Files.missing, Files.mort47, Files.rates2>>,
                <<Files.rates2, Files.rates2, Files.missing, Files.rates2>>,
                <<Files.rates4, Files.rates2, Files.mort47, Files.missing>> } }
NoTable == [kind |-> "none", index |-> <<>>, names |-> <<>>, col |-> <<>>]

HasColumn(table, name) == \E i \in 1..Len(table.names) : table.names[i] = name

\* ------------------------------------------------------------------------
\* The engine instance
\* ------------------------------------------------------------------------
VARIABLES
    cfg,      \* the configuration attributes of the instance
    years,    \* self.years, set by __init__ only
    attrs,    \* the names of the attributes created on the instance so far (hasattr)
    market,   \* forward_rates, liquidity_premium, mortality_table, repurchase_rates
    curve,    \* deflator, spot_rates, discount_rates, forward_rates_selected, volatility_selected
    assets,   \* bonds_vnc, bonds_mv, bonds_quantity, stocks_vnc, stocks_mv, stocks_quantity, cash_balance
    liabs,    \* benefit_payments, technical_reserves, surrender_benefits, expenses, premium_income
    results,  \* bel_results, pnl_results, vif_results, options_guarantees_results, al_summary, cf_metrics, neutral
    rng,      \* the state of numpy's global random generator
    ret,      \* what the last call returned to its caller
    changes,  \* configuration changes and reloads made so far
    calls,    \* engine methods called so far
    dialog    \* the texts in the fields of the parameter dialog while it is open

vars == <<cfg, years, attrs, market, curve, assets, liabs, results, rng, ret, changes, calls,
          dialog>>

\* the instance as one value, for the methods below
Self ==
    [ cfg |-> cfg, years |-> years, attrs |-> attrs, market |-> market, curve |-> curve,
      assets |-> assets, liabs |-> liabs, results |-> results, rng |-> rng ]

NoAssets ==
    [ bonds_vnc |-> <<>>, bonds_mv |-> <<>>, bonds_quantity |-> <<>>, stocks_vnc |-> <<>>,
      stocks_mv |-> <<>>, stocks_quantity |-> <<>>, cash_balance |-> <<>> ]
NoLiabs ==
    [ benefit_payments |-> <<>>, technical_reserves |-> <<>>, surrender_benefits |-> <<>>,
      expenses |-> <<>>, premium_income |-> <<>> ]
NoResults ==
    [ bel_results |-> <<>>, pnl_results |-> <<>>, vif_results |-> <<>>,
      options_guarantees_results |-> <<>>, al_summary |-> <<>>, cf_metrics |-> <<>>,
      neutral |-> <<>> ]

\* numpy's generator: the draws it will deliver, in a cycle, and how many it
\* has delivered; it is seeded from the system when numpy is imported
Seeds == {<<0>>, <<MaxShock, -MaxShock, 0>>}

\* ALM.__init__: the overrides are set on the instance, then the timeline is
\* built as np.arange(opening_year, opening_year + contracts_maturity); no
\* market data, no curve and no projection is stored yet
New(overrides, generator) ==
    LET c == ApplyOverrides(ClassDefaults, overrides)
    IN  [ cfg |-> c,
          years |-> [i \in 1..Max(0, c.contracts_maturity) |-> c.opening_year + i - 1],
          attrs |-> {},
          market |-> [ forward_rates |-> NoTable, liquidity_premium |-> NoTable,
                       mortality_table |-> NoTable, repurchase_rates |-> NoTable ],
          curve |-> [ deflator |-> <<>>, spot_rates |-> <<>>, discount_rates |-> <<>>,
                      forward_rates_selected |-> <<>>, volatility_selected |-> <<>> ],
          assets |-> NoAssets, liabs |-> NoLiabs, results |-> NoResults, rng |-> generator ]

Has(s, a) == a \in s.attrs

\* a DataFrame: its index and its columns in order; a column is a sequence
Table(index, names, col) == [index |-> index, names |-> names, col |-> col]

\* ------------------------------------------------------------------------
\* report_discount_rate
\* ------------------------------------------------------------------------
DiscountColumns ==
    <<"Forward Rate", "Spot Rate", "Deflator", "Discount Rate", "Volatility",
      "Risk Adjusted Rate", "Risk Premium">>

\* pd.Timestamp(year=year, month=1, day=1) as a number of days: 365 a year and
\* one more for every leap year before it
DayNumber(year) ==
    365 * year + (year - 1) \div 4 - (year - 1) \div 100 + (year - 1) \div 400

\* index.get_indexer([date], method='nearest')[0]: the row whose date is the
\* fewest days away, the later one when two are equally near
NearestRow(index, year) ==
    CHOOSE i \in 1..Len(index) :
        \A j \in 1..Len(index) :
            \/ Abs(DayNumber(index[i]) - DayNumber(year))
                  < Abs(DayNumber(index[j]) - DayNumber(year))
            \/ /\ Abs(DayNumber(index[i]) - DayNumber(year))
                    = Abs(DayNumber(index[j]) - DayNumber(year))
               /\ index[i] >= index[j]

\* spot_rates[t] bootstrapped in year 1 as in the later years
ExtendedByBootstrapping(spot_rates, forward_rates, t) ==
    Append(spot_rates,
           RootR(MulR(PowR(One + At(spot_rates, t - 1), t), One + At(forward_rates, t)),
                 t + 1) - One)

\* spot_rates[t] written, t >= 1, from spot_rates[0..t-1]
Extended(spot_rates, forward_rates, t) ==
    Append(spot_rates,
           IF t = 1 THEN At(forward_rates, 1)
           ELSE RootR(MulR(PowR(One + At(spot_rates, t - 1), t), One + At(forward_rates, t)),
                      t + 1) - One)

\* spot_rates[0..t] bootstrapped from the forward rates
RECURSIVE SpotRates(_, _)
SpotRates(forward_rates, t) ==
    IF t = 0 THEN <<At(forward_rates, 0)>>
    ELSE Extended(SpotRates(forward_rates, t - 1), forward_rates, t)

\* the lookups raise: no data loaded, an empty timeline, an empty table, or the
\* column absent from a table without columns
DiscountRaises(s, selected_maturity) ==
    \/ ~Has(s, "forward_rates")
    \/ Len(s.years) = 0
    \/ Len(s.market.forward_rates.index) = 0
    \/ ~HasColumn(s.market.forward_rates, selected_maturity)
         /\ Len(s.market.forward_rates.names) = 0

\* the table returned and the arrays stored, from the columns computed
CurveResult(s, forward_rates, volatility, spot_rates, deflator, discount_rates, risk_premium) ==
    [ s |-> [s EXCEPT
               !.attrs = @ \cup {"deflator", "forward_rates_selected", "spot_rates",
                                 "discount_rates", "volatility_selected"},
               !.curve = [ deflator |-> deflator, spot_rates |-> spot_rates,
                           discount_rates |-> discount_rates,
                           forward_rates_selected |-> forward_rates,
                           volatility_selected |-> volatility ]],
      r |-> Table(s.years, DiscountColumns,
              [ c \in {DiscountColumns[i] : i \in 1..Len(DiscountColumns)} |->
                  CASE c = "Forward Rate" -> forward_rates
                    [] c = "Spot Rate" -> spot_rates
                    [] c = "Deflator" -> deflator
                    [] c = "Discount Rate" -> discount_rates
                    [] c = "Volatility" -> volatility
                    [] c = "Risk Adjusted Rate" ->
                         Array([i \in 1..Len(s.years) |-> forward_rates[i] + risk_premium[i]],
                               Len(s.years))
                    [] c = "Risk Premium" -> risk_premium ]),
      raised |-> FALSE ]

\* discount_rates as the rate over the whole period, 1 / deflator - 1
CurveFromDeflatorCumulative(s, forward_rates, volatility, spot_rates, deflator) ==
    CurveResult(s, forward_rates, volatility, spot_rates, deflator,
                Array([i \in 1..Len(s.years) |->
                         IF i = 1 THEN 0 ELSE DivR(One, deflator[i]) - One],
                      Len(s.years)),
                Array([i \in 1..Len(s.years) |-> MulR(volatility[i], Dec(15, 10))], Len(s.years)))

\* discount_rates from the deflator, risk_premium = volatility * 1.5
CurveFromDeflator(s, forward_rates, volatility, spot_rates, deflator) ==
    CurveResult(s, forward_rates, volatility, spot_rates, deflator,
                Array([i \in 1..Len(s.years) |->
                         IF i = 1 THEN 0 ELSE RootR(DivR(One, deflator[i]), i - 1) - One],
                      Len(s.years)),
                Array([i \in 1..Len(s.years) |-> MulR(volatility[i], Dec(15, 10))], Len(s.years)))

\* the deflator from the spot rates: 1 / (1 + spot_rates[t]) ** t
CurveFromSpotRates(s, forward_rates, volatility, spot_rates) ==
    CurveFromDeflator(s, forward_rates, volatility, spot_rates,
                      Array([i \in 1..Len(s.years) |->
                               IF i = 1 THEN One
                               ELSE DivR(One, PowR(One + spot_rates[i], i - 1))],
                            Len(s.years)))

\* the spot rates from the forward rates read
CurveFromLookups(s, forward_rates, volatility) ==
    CurveFromSpotRates(s, forward_rates, volatility, SpotRates(forward_rates, Len(s.years) - 1))

\* the forward rate read for each year: the selected column, else the last column
RatesReadElseLastColumn(table, timeline, selected_maturity) ==
    Array([i \in 1..Len(timeline) |->
             IF HasColumn(table, selected_maturity)
             THEN table.col[selected_maturity][NearestRow(table.index, timeline[i])]
             ELSE table.col[table.names[Len(table.names)]][NearestRow(table.index, timeline[i])]],
          Len(timeline))

\* the forward rate read for each year: the selected column, else the first column
RatesRead(table, timeline, selected_maturity) ==
    Array([i \in 1..Len(timeline) |->
             IF HasColumn(table, selected_maturity)
             THEN table.col[selected_maturity][NearestRow(table.index, timeline[i])]
             ELSE table.col[table.names[1]][NearestRow(table.index, timeline[i])]],
          Len(timeline))

\* the volatility read for each year: the "<maturity>_Vol" column, else 1%
VolatilityRead(table, timeline, selected_maturity) ==
    Array([i \in 1..Len(timeline) |->
             IF HasColumn(table, selected_maturity \o "_Vol")
             THEN table.col[selected_maturity \o "_Vol"][NearestRow(table.index, timeline[i])]
             ELSE Dec(1, 100)],
          Len(timeline))

\* the body of the try block of report_discount_rate, when nothing in it raises
DiscountCurve(s, selected_maturity) ==
    CurveFromLookups(s, RatesRead(s.market.forward_rates, s.years, selected_maturity),
                     VolatilityRead(s.market.forward_rates, s.years, selected_maturity))

\* report_discount_rate without its try/except: a failure reaches the caller
report_discount_rate_unguarded(s, selected_maturity) ==
    IF DiscountRaises(s, selected_maturity)
    THEN [s |-> s, r |-> "Exception", raised |-> TRUE]
    ELSE DiscountCurve(s, selected_maturity)

\* report_discount_rate creating self.deflator before the lookups that may raise
report_discount_rate_deflator_first(s, selected_maturity) ==
    IF DiscountRaises(s, selected_maturity)
    THEN [ s |-> [s EXCEPT !.attrs = @ \cup {"deflator"},
                           !.curve.deflator = Zeros(Len(s.years))],
           r |-> Table(<<>>, DiscountColumns,
                       [c \in {DiscountColumns[i] : i \in 1..Len(DiscountColumns)} |-> <<>>]),
           raised |-> FALSE ]
    ELSE DiscountCurve(s, selected_maturity)

\* whatever the try block raises is caught, and an empty table returned
report_discount_rate(s, selected_maturity) ==
    IF DiscountRaises(s, selected_maturity)
    THEN [ s |-> s,
           r |-> Table(<<>>, DiscountColumns,
                       [c \in {DiscountColumns[i] : i \in 1..Len(DiscountColumns)} |-> <<>>]),
           raised |-> FALSE ]
    ELSE DiscountCurve(s, selected_maturity)

\* if not hasattr(self, 'deflator'): self.report_discount_rate()
WithDeflator(s) ==
    IF Has(s, "deflator") THEN s ELSE report_discount_rate(s, "5Y").s

\* ------------------------------------------------------------------------
\* load_data_from_file
\* ------------------------------------------------------------------------
\* pd.read_csv and set_index raise on a file of the wrong shape; an unknown
\* data type raises after the file is read; every failure returns False
load_data_from_file(s, file, data_type) ==
    IF IF data_type = "mortality_table" THEN file.kind # "mortality"
       ELSE file.kind # "rates" \/ data_type = "other"
    THEN [s |-> s, r |-> FALSE, raised |-> FALSE]
    ELSE [ s |-> [s EXCEPT !.attrs = @ \cup {data_type}, !.market[data_type] = file],
           r |-> TRUE, raised |-> FALSE ]

\* MyWindow._load_market_data: the files of data_files are loaded in order from
\* the i-th on, and the first one that fails ends the loop with a message box
RECURSIVE load_market_data(_, _, _)
load_market_data(s, data_files, i) ==
    IF i > Len(data_files) \/ ~load_data_from_file(s, data_files[i][2], data_files[i][1]).r
    THEN [s |-> s, r |-> "None", raised |-> FALSE]
    ELSE load_market_data(load_data_from_file(s, data_files[i][2], data_files[i][1]).s,
                          data_files, i + 1)

\* ------------------------------------------------------------------------
\* assets_variables_projection
\* ------------------------------------------------------------------------
EmptyDict == <<>>

AssetArrays ==
    {"bonds_vnc", "bonds_mv", "bonds_quantity", "stocks_vnc", "stocks_mv",
     "stocks_quantity", "cash_balance"}

\* bonds_vnc[t] written: the gap to par shrinks by 1/contracts_maturity of itself
BondsVncNext(bonds_vnc, c, t) ==
    Append(bonds_vnc, At(bonds_vnc, t - 1)
                        + MulR(c.nominal - At(bonds_vnc, t - 1), Ratio(1, c.contracts_maturity)))

\* bonds_vnc[0..t]
RECURSIVE BondsVnc(_, _)
BondsVnc(c, t) ==
    IF t = 0 THEN <<c.bonds_initial_vnc>> ELSE BondsVncNext(BondsVnc(c, t - 1), c, t)

\* bonds_mv[t] written: price_change = -duration * rate_change when forward
\* rates are selected, 2% growth otherwise
BondsMvNext(bonds_mv, s, t) ==
    Append(bonds_mv,
           IF Has(s, "forward_rates_selected")
           THEN MulR(At(bonds_mv, 0),
                     One + (-Max(1, s.cfg.contracts_maturity - t))
                             * (At(s.curve.forward_rates_selected, t)
                                  - At(s.curve.forward_rates_selected, 0)))
           ELSE MulR(At(bonds_mv, t - 1), Dec(102, 100)))

\* bonds_mv[0..t]
RECURSIVE BondsMv(_, _)
BondsMv(s, t) ==
    IF t = 0 THEN <<s.cfg.bonds_initial_mv>> ELSE BondsMvNext(BondsMv(s, t - 1), s, t)

\* stocks_mv[t] written: the growth rate takes the t-th next draw of the
\* generator when a volatility is selected
StocksMvNext(stocks_mv, s, t) ==
    Append(stocks_mv,
           MulR(At(stocks_mv, t - 1),
                One + (IF Has(s, "volatility_selected")
                       THEN Dec(8, 100)
                              + At(s.curve.volatility_selected, t)
                                  * s.rng.seed[((s.rng.pos + t - 1) % Len(s.rng.seed)) + 1]
                       ELSE Dec(8, 100))))

\* stocks_mv[0..t]
RECURSIVE StocksMv(_, _)
StocksMv(s, t) ==
    IF t = 0 THEN <<s.cfg.stocks_initial_mv>> ELSE StocksMvNext(StocksMv(s, t - 1), s, t)

\* cash_balance[0]
InitialCash(c) ==
    DivR(MulR(c.bonds_initial_vnc + c.stocks_initial_vnc, c.alloc_cash),
         c.alloc_bonds + c.alloc_stocks)

\* cash_balance[t] written: the cash rate is half the forward rate, 2% when
\* none is selected
CashBalanceNext(cash_balance, s, t) ==
    Append(cash_balance,
           MulR(At(cash_balance, t - 1),
                One + (IF Has(s, "forward_rates_selected")
                       THEN MulR(At(s.curve.forward_rates_selected, t), Dec(5, 10))
                       ELSE Dec(2, 100))))

\* cash_balance[0..t]
RECURSIVE CashBalance(_, _)
CashBalance(s, t) ==
    IF t = 0 THEN <<InitialCash(s.cfg)>> ELSE CashBalanceNext(CashBalance(s, t - 1), s, t)

\* zeros(n) with the first entry written
First(n, v) == Array([i \in 1..n |-> IF i = 1 THEN v ELSE 0], n)

\* where the projection raises, in the order of the statements: 0 when it does not
AssetsRaisesAt(s) ==
    IF Len(s.years) = 0 THEN 1
    ELSE IF s.cfg.nominal = 0 THEN 2
    ELSE IF s.cfg.alloc_bonds + s.cfg.alloc_stocks = 0 THEN 3
    ELSE IF Len(s.years) >= 2 /\ s.cfg.contracts_maturity = 0 THEN 4
    ELSE 0

\* the arrays as the statements before the raise left them
PartialAssets(n, c, stage) ==
    [ bonds_vnc       |-> IF stage >= 2 THEN First(n, c.bonds_initial_vnc) ELSE Zeros(n),
      bonds_mv        |-> IF stage >= 2 THEN First(n, c.bonds_initial_mv) ELSE Zeros(n),
      bonds_quantity  |-> IF stage >= 3 THEN First(n, Ratio(c.bonds_initial_vnc, c.nominal))
                          ELSE Zeros(n),
      stocks_vnc      |-> IF stage >= 3 THEN First(n, c.stocks_initial_vnc) ELSE Zeros(n),
      stocks_mv       |-> IF stage >= 3 THEN First(n, c.stocks_initial_mv) ELSE Zeros(n),
      stocks_quantity |-> IF stage >= 3 THEN First(n, One) ELSE Zeros(n),
      cash_balance    |-> IF stage >= 4 THEN First(n, InitialCash(c)) ELSE Zeros(n) ]

\* the arrays when every statement ran
ProjectedAssets(s, n) ==
    [ bonds_vnc       |-> BondsVnc(s.cfg, n - 1),
      bonds_mv        |-> BondsMv(s, n - 1),
      bonds_quantity  |-> Array([i \in 1..n |-> Ratio(s.cfg.bonds_initial_vnc, s.cfg.nominal)], n),
      stocks_vnc      |-> Array([i \in 1..n |-> s.cfg.stocks_initial_vnc], n),
      stocks_mv       |-> StocksMv(s, n - 1),
      stocks_quantity |-> Array([i \in 1..n |-> One], n),
      cash_balance    |-> CashBalance(s, n - 1) ]

\* self.asset_projections = {...}; return self.asset_projections
AssetsStored(s, projected) ==
    [ s |-> [s EXCEPT !.attrs = @ \cup AssetArrays \cup {"asset_projections"},
                      !.assets = projected,
                      !.rng = IF Has(s, "volatility_selected")
                              THEN [@ EXCEPT !.pos = (@ + Len(s.years) - 1) % Len(s.rng.seed)]
                              ELSE @],
      r |-> projected, raised |-> FALSE ]

assets_variables_projection(s) ==
    IF AssetsRaisesAt(s) # 0
    THEN [ s |-> [s EXCEPT !.attrs = @ \cup AssetArrays,
                           !.assets = PartialAssets(Len(s.years), s.cfg, AssetsRaisesAt(s))],
           r |-> EmptyDict, raised |-> FALSE ]
    ELSE AssetsStored(s, ProjectedAssets(s, Len(s.years)))

\* if not hasattr(self, 'asset_projections'): self.assets_variables_projection()
WithAssetProjections(s) ==
    IF Has(s, "asset_projections") THEN s ELSE assets_variables_projection(s).s

\* bonds_vnc + stocks_vnc + cash_balance
TotalVnc(s1) ==
    [ s |-> s1,
      r |-> Array([i \in 1..Len(s1.assets.bonds_vnc) |->
                     s1.assets.bonds_vnc[i] + s1.assets.stocks_vnc[i] + s1.assets.cash_balance[i]],
                  Len(s1.assets.bonds_vnc)),
      raised |-> FALSE ]

\* the projection is run when none is stored, then the arrays are added
\* whatever it did
total_assets_booked_value(s) == TotalVnc(WithAssetProjections(s))

\* bonds_mv + stocks_mv + cash_balance
TotalMv(s1) ==
    [ s |-> s1,
      r |-> Array([i \in 1..Len(s1.assets.bonds_mv) |->
                     s1.assets.bonds_mv[i] + s1.assets.stocks_mv[i] + s1.assets.cash_balance[i]],
                  Len(s1.assets.bonds_mv)),
      raised |-> FALSE ]

total_assets_market_value(s) == TotalMv(WithAssetProjections(s))

\* variation_pmvl_reference: the projection is run when none is stored and the
\* reference is total_assets_market_value(); bond_pv01 exists only when forward
\* rates are selected, and without it the stress scenario raises, which is
\* caught and {} returned
variation_pmvl_reference(s) ==
    LET o == total_assets_market_value(s)
        n == Len(o.s.years)
        bond_duration ==
            Ratio(SumSeq([i \in 1..n |-> Max(1, o.s.cfg.contracts_maturity - (i - 1))]), n)
        bond_pv01 ==
            [i \in 1..n |-> MulR(MulR(o.s.assets.bonds_mv[i], bond_duration), Dec(1, 100))]
        equity == [i \in 1..n |-> MulR(o.s.assets.stocks_mv[i], Dec(20, 100))]
    IN  [ s |-> o.s,
          r |-> IF Has(o.s, "forward_rates_selected")
                THEN [ interest_rate_up   |-> Array([i \in 1..n |-> o.r[i] - bond_pv01[i]], n),
                       interest_rate_down |-> Array([i \in 1..n |-> o.r[i] + bond_pv01[i]], n),
                       equity_up          |-> Array([i \in 1..n |-> o.r[i] + equity[i]], n),
                       equity_down        |-> Array([i \in 1..n |-> o.r[i] - equity[i]], n),
                       stress_scenario    |->
                           Array([i \in 1..n |-> o.r[i] - bond_pv01[i] - equity[i]], n) ]
                ELSE EmptyDict,
          raised |-> FALSE ]

\* ------------------------------------------------------------------------
\* cash_flows_liabilities
\* ------------------------------------------------------------------------
LiabilityArrays ==
    {"benefit_payments", "technical_reserves", "surrender_benefits", "expenses",
     "premium_income"}

\* the default mortality whatever table is loaded
MortalityRateByDefault(s, t) ==
    IF s.cfg.average_age + t < 100
    THEN MulR(Dec(1, 1000), PowR(Dec(11, 10), s.cfg.average_age + t))
    ELSE Dec(5, 100)

\* the mortality rate used in year t: mortality_rates[average_age + t] when
\* the array is that long, else 5%; mortality_rates is the 'Qx' column of the
\* loaded table row by row whatever its Age, or the 100 defaults 0.001 * 1.1 ** i
MortalityRate(s, t) ==
    IF Has(s, "mortality_table")
    THEN IF s.cfg.average_age + t < Len(s.market.mortality_table.index)
         THEN At(s.market.mortality_table.col["Qx"], s.cfg.average_age + t)
         ELSE Dec(5, 100)
    ELSE IF s.cfg.average_age + t < 100
         THEN MulR(Dec(1, 1000), PowR(Dec(11, 10), s.cfg.average_age + t))
         ELSE Dec(5, 100)

\* contracts in force that only deaths reduce
RECURSIVE ContractsInForceDeathsOnly(_, _)
ContractsInForceDeathsOnly(s, t) ==
    IF t = 0 THEN s.cfg.insured_number * CountScale
    ELSE MulR(ContractsInForceDeathsOnly(s, t - 1), One - MortalityRate(s, t))

\* contracts_in_force after the update of year t, in CountScale units
RECURSIVE ContractsInForce(_, _)
ContractsInForce(s, t) ==
    IF t = 0 THEN s.cfg.insured_number * CountScale
    ELSE MulR(ContractsInForce(s, t - 1),
              One - MortalityRate(s, t) - s.cfg.redemption_rates)

\* fixed_expense + variable_expense of year t
Expenses(premium_income, c, t) ==
    MulR(c.fixed_fee, PowR(One + c.fixed_cost_inflation, t)) + MulR(premium_income, c.charges_rate)

\* technical_reserves[t] with no interest credited on the reserves brought forward
TechnicalReservesNextWithoutInterest(technical_reserves, p, c, t) ==
    Append(technical_reserves,
           At(technical_reserves, t - 1)
             + MulR(At(p.premium_income, t), Dec(8, 10))
             - (At(p.benefit_payments, t) + At(p.surrender_benefits, t)))

\* technical_reserves[t] written, t >= 1; p holds the arrays written before it
TechnicalReservesNext(technical_reserves, p, c, t) ==
    Append(technical_reserves,
           At(technical_reserves, t - 1)
             + MulR(At(technical_reserves, t - 1), c.guaranteed_minimum_rate)
             + MulR(At(p.premium_income, t), Dec(8, 10))
             - (At(p.benefit_payments, t) + At(p.surrender_benefits, t)))

\* technical_reserves[0..t]
RECURSIVE TechnicalReserves(_, _, _)
TechnicalReserves(p, c, t) ==
    IF t = 0 THEN <<MulR(At(p.premium_income, 0), Dec(8, 10))>>
    ELSE TechnicalReservesNext(TechnicalReserves(p, c, t - 1), p, c, t)

\* the arrays that read contracts_in_force, given as each year of the loop uses it
\*   premium_income = contracts_in_force * self.insured_premium
\*   benefit_payments = death_claims * self.insured_premium * 10
\*   surrender_benefits = surrender_claims * surrender_value
FromInForce(s, in_force, n) ==
    [ premium_income     |->
          Array([i \in 1..n |-> MulDiv(in_force[i], s.cfg.insured_premium, CountScale)], n),
      benefit_payments   |->
          Array([i \in 1..n |->
                   MulDiv(MulR(in_force[i], MortalityRate(s, i - 1)), s.cfg.insured_premium,
                          CountScale) * 10], n),
      surrender_benefits |->
          Array([i \in 1..n |->
                   MulDiv(MulR(in_force[i], s.cfg.redemption_rates), s.cfg.insured_premium * 8,
                          CountScale)], n) ]

\* the five arrays: the reserves and the expenses read the premium income and
\* the claims of the same year
LiabilityProjections(p, c, n) ==
    [ benefit_payments   |-> p.benefit_payments,
      technical_reserves |-> IF n = 0 THEN <<>> ELSE TechnicalReserves(p, c, n - 1),
      surrender_benefits |-> p.surrender_benefits,
      expenses           |-> Array([i \in 1..n |-> Expenses(p.premium_income[i], c, i - 1)], n),
      premium_income     |-> p.premium_income ]

\* self.liability_projections = {...}; return self.liability_projections
LiabilitiesStored(s, projected) ==
    [ s |-> [s EXCEPT !.attrs = @ \cup LiabilityArrays \cup {"liability_projections"},
                      !.liabs = projected],
      r |-> projected, raised |-> FALSE ]

\* the lookup of the 'Qx' column raises when a table without it is loaded
cash_flows_liabilities(s) ==
    IF Has(s, "mortality_table") /\ ~HasColumn(s.market.mortality_table, "Qx")
    THEN [ s |-> [s EXCEPT !.attrs = @ \cup LiabilityArrays,
                           !.liabs = [f \in LiabilityArrays |-> Zeros(Len(s.years))]],
           r |-> EmptyDict, raised |-> FALSE ]
    ELSE LiabilitiesStored(s, LiabilityProjections(
                                  FromInForce(s, Array([i \in 1..Len(s.years) |->
                                                          ContractsInForce(s, i - 1)],
                                                       Len(s.years)),
                                              Len(s.years)),
                                  s.cfg, Len(s.years)))

\* if not hasattr(self, 'liability_projections'): self.cash_flows_liabilities()
WithLiabilityProjections(s) ==
    IF Has(s, "liability_projections") THEN s ELSE cash_flows_liabilities(s).s

\* ------------------------------------------------------------------------
\* calculation_BEL, local_gaap_pnl, value_in_force
\* ------------------------------------------------------------------------
\* np.sum(a * deflator)
RECURSIVE SumProduct(_, _)
SumProduct(a, d) ==
    IF a = <<>> THEN 0 ELSE MulR(a[1], d[1]) + SumProduct(Tail(a), Tail(d))

\* self.<name> = value; return value
Stored(s, name, value) ==
    [ s |-> [s EXCEPT !.attrs = @ \cup {name}, !.results[name] = value],
      r |-> value, raised |-> FALSE ]

\* self.bel_results with the risk margin taken on the net liability
BelRecordWithMarginOnNet(pv_benefits, pv_surrenders, pv_expenses, pv_premiums) ==
    [ bel_gross |-> pv_benefits + pv_surrenders + pv_expenses,
      bel_net |-> pv_benefits + pv_surrenders + pv_expenses - pv_premiums,
      pv_benefits |-> pv_benefits, pv_surrenders |-> pv_surrenders,
      pv_expenses |-> pv_expenses, pv_premiums |-> pv_premiums,
      risk_margin |-> MulR(pv_benefits + pv_surrenders + pv_expenses - pv_premiums, Dec(6, 100)),
      technical_provisions |->
          (pv_benefits + pv_surrenders + pv_expenses - pv_premiums)
            + MulR(pv_benefits + pv_surrenders + pv_expenses - pv_premiums, Dec(6, 100)) ]

\* self.bel_results: risk_margin = bel_gross * cost_of_capital
BelRecord(pv_benefits, pv_surrenders, pv_expenses, pv_premiums) ==
    [ bel_gross |-> pv_benefits + pv_surrenders + pv_expenses,
      bel_net |-> pv_benefits + pv_surrenders + pv_expenses - pv_premiums,
      pv_benefits |-> pv_benefits, pv_surrenders |-> pv_surrenders,
      pv_expenses |-> pv_expenses, pv_premiums |-> pv_premiums,
      risk_margin |-> MulR(pv_benefits + pv_surrenders + pv_expenses, Dec(6, 100)),
      technical_provisions |->
          (pv_benefits + pv_surrenders + pv_expenses - pv_premiums)
            + MulR(pv_benefits + pv_surrenders + pv_expenses, Dec(6, 100)) ]

\* calculation_BEL once the liabilities and the curve have been asked for
BelResults(s2) ==
    IF ~Has(s2, "deflator")
    THEN [s |-> s2, r |-> EmptyDict, raised |-> FALSE]
    ELSE Stored(s2, "bel_results",
                BelRecord(SumProduct(s2.liabs.benefit_payments, s2.curve.deflator),
                          SumProduct(s2.liabs.surrender_benefits, s2.curve.deflator),
                          SumProduct(s2.liabs.expenses, s2.curve.deflator),
                          SumProduct(s2.liabs.premium_income, s2.curve.deflator)))

calculation_BEL(s) == BelResults(WithDeflator(WithLiabilityProjections(s)))

\* if not hasattr(self, 'bel_results'): self.calculation_BEL()
WithBelResults(s) ==
    IF Has(s, "bel_results") THEN s ELSE calculation_BEL(s).s

\* the lines of the P&L read from the projections; the income of year t is
\* earned on the balances of year t - 1, and 10% of the total unrealized gains
\* of the bonds and the stocks are realized
PnlLines(a, l, c, n) ==
    [ premium_revenue    |-> l.premium_income,
      investment_income  |->
          Array([i \in 1..n |->
                   IF i = 1 THEN 0
                   ELSE MulR(a.bonds_vnc[i - 1], c.coupon_rate)
                          + MulR(a.stocks_mv[i - 1], Dec(3, 100))
                          + MulR(a.cash_balance[i - 1], Dec(2, 100))], n),
      realized_gains     |->
          Array([i \in 1..n |-> IF i = 1 THEN 0
                            ELSE MulR((a.bonds_mv[i] - a.bonds_vnc[i])
                                        + (a.stocks_mv[i] - a.stocks_vnc[i]), Dec(1, 10))], n),
      unrealized_gains   |->
          Array([i \in 1..n |-> IF i = 1 THEN 0
                            ELSE MulR((a.bonds_mv[i] - a.bonds_vnc[i])
                                        + (a.stocks_mv[i] - a.stocks_vnc[i]), Dec(9, 10))], n),
      claim_expenses     |->
          Array([i \in 1..n |-> l.benefit_payments[i] + l.surrender_benefits[i]], n),
      operating_expenses |-> l.expenses ]

\* gross_income, total_expenses and their difference pre_tax_income
PnlTotals(p, n) ==
    [ gross_income   |->
          Array([i \in 1..n |-> p.premium_revenue[i] + p.investment_income[i]
                                  + p.realized_gains[i]], n),
      total_expenses |->
          Array([i \in 1..n |-> p.claim_expenses[i] + p.operating_expenses[i]], n),
      pre_tax_income |->
          Array([i \in 1..n |-> (p.premium_revenue[i] + p.investment_income[i]
                                   + p.realized_gains[i])
                                  - (p.claim_expenses[i] + p.operating_expenses[i])], n) ]

\* self.pnl_results
PnlRecord(p, q, tax_expense, n) ==
    [ premium_revenue |-> p.premium_revenue, investment_income |-> p.investment_income,
      realized_gains |-> p.realized_gains, unrealized_gains |-> p.unrealized_gains,
      claim_expenses |-> p.claim_expenses, operating_expenses |-> p.operating_expenses,
      gross_income |-> q.gross_income, total_expenses |-> q.total_expenses,
      pre_tax_income |-> q.pre_tax_income, tax_expense |-> tax_expense,
      net_income |-> Array([i \in 1..n |-> q.pre_tax_income[i] - tax_expense[i]], n) ]

\* the tax rate applied to losses as to profits
PnlFromTotalsTaxingLosses(p, q, c, n) ==
    PnlRecord(p, q, Array([i \in 1..n |-> MulR(q.pre_tax_income[i], c.tax_rate)], n), n)

\* tax_expense = np.maximum(0, pre_tax_income * self.tax_rate)
PnlFromTotals(p, q, c, n) ==
    PnlRecord(p, q, Array([i \in 1..n |-> Max(0, MulR(q.pre_tax_income[i], c.tax_rate))], n), n)

\* the totals from the lines
PnlFromLines(p, c, n) == PnlFromTotals(p, PnlTotals(p, n), c, n)

\* local_gaap_pnl once the projections have been asked for
PnlResults(s2) ==
    Stored(s2, "pnl_results",
           PnlFromLines(PnlLines(s2.assets, s2.liabs, s2.cfg, Len(s2.years)),
                        s2.cfg, Len(s2.years)))

local_gaap_pnl(s) == PnlResults(WithLiabilityProjections(WithAssetProjections(s)))

\* if not hasattr(self, 'pnl_results'): self.local_gaap_pnl()
WithPnlResults(s) ==
    IF Has(s, "pnl_results") THEN s ELSE local_gaap_pnl(s).s

\* self.vif_results
VifRecord(c, pv_future_profits, new_business_strain, acquisition_costs) ==
    [ vif_gross |-> pv_future_profits,
      vif_net |-> pv_future_profits - new_business_strain - acquisition_costs,
      pv_future_profits |-> pv_future_profits,
      new_business_strain |-> new_business_strain,
      acquisition_costs |-> acquisition_costs,
      vif_margin |->
          IF c.insured_number > 0
          THEN Ratio(pv_future_profits - new_business_strain - acquisition_costs,
                     c.insured_number * c.insured_premium)
          ELSE 0,
      risk_discount_rate |-> Dec(12, 100) ]

\* value_in_force once the P&L and the curve have been asked for: the profits
\* are discounted by (1 + risk_discount_rate) ** (-np.arange(n))
VifResults(s2) ==
    Stored(s2, "vif_results",
           VifRecord(s2.cfg,
                     SumProduct(s2.results.pnl_results.net_income,
                                Array([i \in 1..Len(s2.years) |->
                                         DivR(One, PowR(One + Dec(12, 100), i - 1))],
                                      Len(s2.years))),
                     MulR(s2.cfg.insured_number * s2.cfg.insured_premium, Dec(1, 10)),
                     MulDiv(s2.cfg.insured_number * s2.cfg.fee_pct_premium,
                            s2.cfg.insured_premium, RateScale)))

value_in_force(s) == VifResults(WithDeflator(WithPnlResults(s)))

\* ------------------------------------------------------------------------
\* total_value_options_garantees, total_liabilities_vnc, total_liabilities_vm
\* ------------------------------------------------------------------------
\* account_value of year t: the market value of the assets per insured
AccountValue(s, t) ==
    At(total_assets_market_value(s).r, t) \div s.cfg.insured_number

GmdbValue(s, t) ==
    IF Has(s, "asset_projections")
    THEN Max(0, s.cfg.insured_premium * 10 - AccountValue(s, t))
    ELSE MulR(s.cfg.insured_premium * 10, Dec(1, 10))

GmabValue(s, t) ==
    IF Has(s, "asset_projections") /\ t > 0
    THEN Max(0, MulR(s.cfg.insured_premium, PowR(One + s.cfg.guaranteed_minimum_rate, t))
                  - AccountValue(s, t))
    ELSE 0

\* self.options_guarantees_results: the three arrays, their present values
\* and the sum of those
OptionsValued(gmdb_value, gmwb_value, gmab_value, deflator) ==
    [ gmdb_value |-> gmdb_value, gmwb_value |-> gmwb_value, gmab_value |-> gmab_value,
      pv_gmdb |-> SumProduct(gmdb_value, deflator),
      pv_gmwb |-> SumProduct(gmwb_value, deflator),
      pv_gmab |-> SumProduct(gmab_value, deflator),
      total_value |-> SumProduct(gmdb_value, deflator) + SumProduct(gmwb_value, deflator)
                        + SumProduct(gmab_value, deflator) ]

\* total_value_options_garantees once the curve has been asked for
OptionsGuaranteesResults(s1) ==
    IF ~Has(s1, "deflator")
    THEN [s |-> s1, r |-> EmptyDict, raised |-> FALSE]
    ELSE Stored(s1, "options_guarantees_results",
                OptionsValued(Array([i \in 1..Len(s1.years) |-> GmdbValue(s1, i - 1)], Len(s1.years)),
                              Array([i \in 1..Len(s1.years) |->
                                       IF i > 1 THEN MulR(s1.cfg.insured_premium, Dec(5, 100))
                                       ELSE 0], Len(s1.years)),
                              Array([i \in 1..Len(s1.years) |-> GmabValue(s1, i - 1)], Len(s1.years)),
                              s1.curve.deflator))

total_value_options_garantees(s) == OptionsGuaranteesResults(WithDeflator(s))

\* if not hasattr(self, 'options_guarantees_results'): self.total_value_options_garantees()
WithOptionsGuarantees(s) ==
    IF Has(s, "options_guarantees_results") THEN s ELSE total_value_options_garantees(s).s

\* total_liabilities_vnc without the risk adjustment
total_liabilities_vnc_reserves_only(s) ==
    [ s |-> WithLiabilityProjections(s),
      r |-> WithLiabilityProjections(s).liabs.technical_reserves,
      raised |-> FALSE ]

\* self.technical_reserves + self.risk_adjustment
TotalLiabilities(s1) ==
    [ s |-> s1,
      r |-> Array([i \in 1..Len(s1.liabs.technical_reserves) |->
                     s1.liabs.technical_reserves[i] + s1.cfg.risk_adjustment],
                  Len(s1.liabs.technical_reserves)),
      raised |-> FALSE ]

total_liabilities_vnc(s) == TotalLiabilities(WithLiabilityProjections(s))

\* duration_factor of year t
DurationFactor(contracts_maturity, t) ==
    Ratio(Max(1, contracts_maturity - t), contracts_maturity)

\* total_liabilities_vm once the BEL and the options have been asked for; the
\* loop raises in its first year on a zero maturity or a result not stored,
\* and zeros are returned; else bel_net, risk_margin and the options value are
\* each scaled by the duration factor of the year and added
MarketValueLiabilities(s2) ==
    [ s |-> s2,
      r |-> IF /\ Len(s2.years) >= 1
               /\ \/ s2.cfg.contracts_maturity = 0
                  \/ ~Has(s2, "bel_results")
                  \/ ~Has(s2, "options_guarantees_results")
            THEN Zeros(Len(s2.years))
            ELSE Array([i \in 1..Len(s2.years) |->
                          MulR(s2.results.bel_results.bel_net,
                               DurationFactor(s2.cfg.contracts_maturity, i - 1))
                            + MulR(s2.results.bel_results.risk_margin,
                                   DurationFactor(s2.cfg.contracts_maturity, i - 1))
                            + MulR(s2.results.options_guarantees_results.total_value,
                                   DurationFactor(s2.cfg.contracts_maturity, i - 1))],
                       Len(s2.years)),
      raised |-> FALSE ]

total_liabilities_vm(s) == MarketValueLiabilities(WithOptionsGuarantees(WithBelResults(s)))

\* ------------------------------------------------------------------------
\* Floating-point results that may be infinite or undefined
\* ------------------------------------------------------------------------
Fin(v) == [tag |-> "fin", v |-> v]
Inf == [tag |-> "inf", v |-> 0]
NegInf == [tag |-> "-inf", v |-> 0]
NaN == [tag |-> "nan", v |-> 0]

\* numpy's x / y as a rate: a zero divisor gives an infinity or nan, no exception
NumDiv(x, y) ==
    IF y # 0 THEN Fin(Ratio(x, y))
    ELSE IF x > 0 THEN Inf ELSE IF x < 0 THEN NegInf ELSE NaN

NumSub(a, b) ==
    IF a.tag = "nan" \/ b.tag = "nan" THEN NaN
    ELSE IF a.tag = "fin" /\ b.tag = "fin" THEN Fin(a.v - b.v)
    ELSE IF a.tag = b.tag THEN NaN
    ELSE IF a.tag # "fin" THEN a
    ELSE IF b.tag = "inf" THEN NegInf ELSE Inf

\* np.mean of a sequence of such results
NumMean(a) ==
    LET tags == {a[i].tag : i \in 1..Len(a)}
    IN  IF Len(a) = 0 \/ "nan" \in tags \/ {"inf", "-inf"} \subseteq tags THEN NaN
        ELSE IF "inf" \in tags THEN Inf
        ELSE IF "-inf" \in tags THEN NegInf
        ELSE Fin(MulDiv(SumSeq(Array([i \in 1..Len(a) |-> a[i].v], Len(a))), 1, Len(a)))

\* np.cumsum
RECURSIVE CumSum(_)
CumSum(a) ==
    IF a = <<>> THEN <<>>
    ELSE LET front == CumSum(SubSeq(a, 1, Len(a) - 1))
         IN  Append(front, (IF front = <<>> THEN 0 ELSE front[Len(front)]) + a[Len(a)])

Columns(names) == {names[i] : i \in 1..Len(names)}

\* ------------------------------------------------------------------------
\* report_asset_liability
\* ------------------------------------------------------------------------
AssetLiabilityColumns ==
    <<"Assets BV", "Assets MV", "Liabilities BV", "Liabilities MV", "Surplus BV",
      "Surplus MV", "Asset Yield", "Liability Cost", "Spread">>

\* the duration of a cash flow when a deflator is stored, else 0:
\* np.sum(np.arange(n) * cf * deflator) / np.sum(cf * deflator)
DurationOf(s6, cf) ==
    IF Has(s6, "deflator")
    THEN NumDiv(SumSeq(Array([i \in 1..Len(cf) |-> MulR((i - 1) * cf[i], s6.curve.deflator[i])],
                             Len(cf))),
                SumProduct(cf, s6.curve.deflator))
    ELSE Fin(0)

\* np.mean(a / b) if np.mean(b) > 0 else 0
CoverageRatio(a, b) ==
    IF Len(b) > 0 /\ SumSeq(b) > 0
    THEN NumMean(Array([i \in 1..Len(a) |-> NumDiv(a[i], b[i])], Len(a)))
    ELSE Fin(0)

\* self.al_summary, from asset_cf and liability_cf
AlSummary(s6, asset_cf, liability_cf, coverage_ratio_bv, coverage_ratio_mv) ==
    [ asset_duration |-> DurationOf(s6, asset_cf),
      liability_duration |-> DurationOf(s6, liability_cf),
      duration_gap |-> NumSub(DurationOf(s6, asset_cf), DurationOf(s6, liability_cf)),
      coverage_ratio_bv |-> coverage_ratio_bv,
      coverage_ratio_mv |-> coverage_ratio_mv ]

\* report_df; a surplus is the difference of the two totals at the currency
\* unit, and the call records whether float64 rounded it (see Commit)
AlTable(s6, total_assets_bv, total_assets_mv, total_liabilities_bv, total_liabilities_mv) ==
    Table(s6.years, AssetLiabilityColumns,
        [ c \in Columns(AssetLiabilityColumns) |->
            CASE c = "Assets BV" -> total_assets_bv
              [] c = "Assets MV" -> total_assets_mv
              [] c = "Liabilities BV" -> total_liabilities_bv
              [] c = "Liabilities MV" -> total_liabilities_mv
              [] c = "Surplus BV" ->
                   Array([i \in 1..Len(s6.years) |-> total_assets_bv[i] - total_liabilities_bv[i]],
                         Len(s6.years))
              [] c = "Surplus MV" ->
                   Array([i \in 1..Len(s6.years) |-> total_assets_mv[i] - total_liabilities_mv[i]],
                         Len(s6.years))
              [] c = "Asset Yield" ->
                   IF Has(s6, "forward_rates_selected") THEN s6.curve.forward_rates_selected
                   ELSE Zeros(Len(s6.years))
              [] c = "Liability Cost" ->
                   Array([i \in 1..Len(s6.years) |-> s6.cfg.guaranteed_minimum_rate], Len(s6.years))
              [] c = "Spread" ->
                   IF Has(s6, "forward_rates_selected")
                   THEN Array([i \in 1..Len(s6.years) |->
                                 s6.curve.forward_rates_selected[i] - s6.cfg.guaranteed_minimum_rate],
                              Len(s6.years))
                   ELSE Zeros(Len(s6.years)) ])

\* report_asset_liability from the four totals on: o3..o6 are what
\* total_assets_booked_value, total_assets_market_value, total_liabilities_vnc
\* and total_liabilities_vm returned, each called on the instance the one
\* before left; asset_cf = self.bonds_vnc * self.coupon_rate and
\* liability_cf = self.benefit_payments + self.surrender_benefits
AssetLiabilityReport(o3, o4, o5, o6) ==
    [ s |-> [o6.s EXCEPT
               !.attrs = @ \cup {"al_summary"},
               !.results.al_summary =
                   AlSummary(o6.s,
                             Array([i \in 1..Len(o6.s.years) |->
                                      MulR(o6.s.assets.bonds_vnc[i], o6.s.cfg.coupon_rate)],
                                   Len(o6.s.years)),
                             Array([i \in 1..Len(o6.s.years) |->
                                      o6.s.liabs.benefit_payments[i]
                                        + o6.s.liabs.surrender_benefits[i]],
                                   Len(o6.s.years)),
                             CoverageRatio(o3.r, o5.r), CoverageRatio(o4.r, o6.r))],
      r |-> AlTable(o6.s, o3.r, o4.r, o5.r, o6.r),
      raised |-> FALSE ]

AfterLiabilitiesVnc(o3, o4, o5) == AssetLiabilityReport(o3, o4, o5, total_liabilities_vm(o5.s))
AfterAssetsMv(o3, o4) == AfterLiabilitiesVnc(o3, o4, total_liabilities_vnc(o4.s))
AfterAssetsBv(o3) == AfterAssetsMv(o3, total_assets_market_value(o3.s))

report_asset_liability(s) ==
    AfterAssetsBv(total_assets_booked_value(WithLiabilityProjections(WithAssetProjections(s))))

\* ------------------------------------------------------------------------
\* report_cash_flow
\* ------------------------------------------------------------------------
CashFlowColumns ==
    <<"Premium Income", "Investment Income", "Total Inflows", "Benefit Payments",
      "Surrender Benefits", "Expenses", "Total Outflows", "Net Operating CF",
      "Net Investment CF", "Net Total CF", "Cumulative CF", "CF Coverage Ratio">>

\* the excess of the investment income over the outflows, as a ratio
CfCoverageRatioNet(total_asset_cf, total_liability_cf) ==
    IF total_liability_cf > 0
    THEN NumDiv(total_asset_cf - total_liability_cf, total_liability_cf) ELSE Inf

\* the coverage ratio as a bare division
CfCoverageRatioUnguarded(total_asset_cf, total_liability_cf) ==
    IF total_liability_cf # 0
    THEN NumDiv(total_asset_cf, total_liability_cf) ELSE Fin(0)

\* np.where(total_liability_cf > 0, total_asset_cf / total_liability_cf, np.inf)
CfCoverageRatio(total_asset_cf, total_liability_cf) ==
    IF total_liability_cf > 0 THEN NumDiv(total_asset_cf, total_liability_cf) ELSE Inf

\* np.argmax(cumulative_total > 0) if np.any(cumulative_total > 0) else len(self.years)
BreakEvenYear(cumulative_total) ==
    IF \A i \in 1..Len(cumulative_total) : cumulative_total[i] <= 0
    THEN Len(cumulative_total)
    ELSE (CHOOSE i \in 1..Len(cumulative_total) :
              /\ cumulative_total[i] > 0
              /\ \A j \in 1..(i - 1) : cumulative_total[j] <= 0) - 1

\* report_df
CfTable(s3, total_asset_cf, total_liability_cf, net_total_cf, cf_coverage_ratio) ==
    Table(s3.years, CashFlowColumns,
        [ c \in Columns(CashFlowColumns) |->
            CASE c = "Premium Income" -> s3.liabs.premium_income
              [] c = "Investment Income" -> total_asset_cf
              [] c = "Total Inflows" ->
                   Array([i \in 1..Len(s3.years) |-> s3.liabs.premium_income[i] + total_asset_cf[i]],
                         Len(s3.years))
              [] c = "Benefit Payments" -> s3.liabs.benefit_payments
              [] c = "Surrender Benefits" -> s3.liabs.surrender_benefits
              [] c = "Expenses" -> s3.liabs.expenses
              [] c = "Total Outflows" -> total_liability_cf
              [] c = "Net Operating CF" ->
                   Array([i \in 1..Len(s3.years) |->
                            s3.liabs.premium_income[i] - total_liability_cf[i]], Len(s3.years))
              [] c = "Net Investment CF" -> total_asset_cf
              [] c = "Net Total CF" -> net_total_cf
              [] c = "Cumulative CF" -> CumSum(net_total_cf)
              [] c = "CF Coverage Ratio" -> cf_coverage_ratio ])

\* the table returned and self.cf_metrics stored.  The cf_volatility entry of
\* the metrics (np.std of the net cash flows) is not represented: a squared
\* amount does not fit the integers of this model.
CashFlowFromNet(s3, total_asset_cf, total_liability_cf, net_total_cf, cf_coverage_ratio) ==
    [ s |-> [s3 EXCEPT
               !.attrs = @ \cup {"cf_metrics"},
               !.results.cf_metrics =
                   [ total_net_cf |-> SumSeq(net_total_cf),
                     avg_coverage_ratio |->
                         NumMean(SelectSeq(cf_coverage_ratio, LAMBDA x : x.tag # "inf")),
                     break_even_year |-> BreakEvenYear(CumSum(net_total_cf)) ]],
      r |-> CfTable(s3, total_asset_cf, total_liability_cf, net_total_cf, cf_coverage_ratio),
      raised |-> FALSE ]

\* net_total_cf = net_operating_cf + net_investment_cf, and the coverage ratio
CashFlowFromTotals(s3, total_asset_cf, total_liability_cf) ==
    CashFlowFromNet(s3, total_asset_cf, total_liability_cf,
                    Array([i \in 1..Len(s3.years) |->
                             (s3.liabs.premium_income[i] - total_liability_cf[i])
                               + total_asset_cf[i]],
                          Len(s3.years)),
                    Array([i \in 1..Len(s3.years) |->
                             CfCoverageRatio(total_asset_cf[i], total_liability_cf[i])],
                          Len(s3.years)))

\* report_cash_flow once the projections and the P&L have been asked for:
\* total_asset_cf = bond_coupons + stock_dividends + cash_interest,
\* total_liability_cf = benefit_payments + surrender_benefits + expenses
CashFlowReport(s3) ==
    CashFlowFromTotals(s3,
                       Array([i \in 1..Len(s3.years) |->
                                MulR(s3.assets.bonds_vnc[i], s3.cfg.coupon_rate)
                                  + MulR(s3.assets.stocks_mv[i], Dec(3, 100))
                                  + MulR(s3.assets.cash_balance[i], Dec(2, 100))],
                             Len(s3.years)),
                       Array([i \in 1..Len(s3.years) |->
                                s3.liabs.benefit_payments[i] + s3.liabs.surrender_benefits[i]
                                  + s3.liabs.expenses[i]],
                             Len(s3.years)))

report_cash_flow(s) ==
    CashFlowReport(WithPnlResults(WithLiabilityProjections(WithAssetProjections(s))))

\* ------------------------------------------------------------------------
\* report_neutral_risk
\* ------------------------------------------------------------------------
NeutralColumns == <<"Bond CF", "PV of CF", "Neutral Factor", "Neutral CF", "Cumulative PV">>

\* a cash flow times an array, from year 1 on
FromYearOne(cf, d) ==
    Array([i \in 1..Len(cf) |-> IF i > 1 THEN MulR(cf[i], d[i]) ELSE 0], Len(cf))

\* the table returned and the results stored
NeutralResult(s, bonds_cf, disc_cf, neutral_factor, neutral_risk_factor, neutral_cf) ==
    [ s |-> [s EXCEPT
               !.attrs = @ \cup {"neutral_risk_factor"},
               !.results.neutral =
                   [ neutral_risk_factor |-> neutral_risk_factor,
                     total_pv_bonds |-> SumSeq(disc_cf),
                     pv_neutral_check |-> SumSeq(FromYearOne(neutral_cf, s.curve.deflator)),
                     neutral_factor_value |-> neutral_factor ]],
      r |-> Table(s.years, NeutralColumns,
              [ c \in Columns(NeutralColumns) |->
                  CASE c = "Bond CF" -> bonds_cf
                    [] c = "PV of CF" -> disc_cf
                    [] c = "Neutral Factor" -> neutral_risk_factor
                    [] c = "Neutral CF" -> neutral_cf
                    [] c = "Cumulative PV" -> CumSum(disc_cf) ]),
      raised |-> FALSE ]

\* neutral_cf: the cash flow scaled from year 1 on
NeutralFromFactors(s, bonds_cf, disc_cf, neutral_factor, neutral_risk_factor) ==
    NeutralResult(s, bonds_cf, disc_cf, neutral_factor, neutral_risk_factor,
                  Array([i \in 1..Len(bonds_cf) |->
                           IF i > 1 THEN MulR(bonds_cf[i], neutral_risk_factor[i])
                           ELSE bonds_cf[i]], Len(bonds_cf)))

\* neutral_risk_factor: the factor from year 1 on
NeutralFromFactor(s, bonds_cf, disc_cf, neutral_factor) ==
    NeutralFromFactors(s, bonds_cf, disc_cf, neutral_factor,
                       Array([i \in 1..Len(bonds_cf) |-> IF i > 1 THEN neutral_factor ELSE 0],
                             Len(bonds_cf)))

\* a factor of 1.0 whatever the present value
NeutralFromPresentValuesUnscaled(s, bonds_cf, disc_cf) ==
    NeutralFromFactor(s, bonds_cf, disc_cf, One)

\* the factor applied on top of the factor a previous call stored
NeutralFromPresentValuesCompounded(s, bonds_cf, disc_cf) ==
    NeutralFromFactor(s, bonds_cf, disc_cf,
                      MulR(IF Has(s, "neutral_risk_factor")
                           THEN s.results.neutral.neutral_factor_value ELSE One,
                           IF SumSeq(disc_cf) > 0
                           THEN Ratio(s.cfg.bonds_initial_mv, SumSeq(disc_cf)) ELSE One))

\* neutral_factor = bonds_initial_mv / total_pv_bonds, 1.0 when that is not positive
NeutralFromPresentValues(s, bonds_cf, disc_cf) ==
    NeutralFromFactor(s, bonds_cf, disc_cf,
                      IF SumSeq(disc_cf) > 0 THEN Ratio(s.cfg.bonds_initial_mv, SumSeq(disc_cf))
                      ELSE One)

\* disc_cf = bonds_cf * deflator from year 1 on
NeutralFromBonds(s, bonds_cf) ==
    NeutralFromPresentValues(s, bonds_cf, FromYearOne(bonds_cf, s.curve.deflator))

\* bonds_cf: the coupon from year 1 on, the nominal added in the last year
report_neutral_risk(s) ==
    IF ~Has(s, "deflator")
    THEN [s |-> s, r |-> "AttributeError", raised |-> TRUE]
    ELSE NeutralFromBonds(s, Array([i \in 1..Len(s.curve.deflator) |->
                                      (IF i > 1 THEN MulR(s.cfg.nominal, s.cfg.coupon_rate) ELSE 0)
                                        + (IF i = Len(s.curve.deflator) THEN s.cfg.nominal ELSE 0)],
                                   Len(s.curve.deflator)))

\* ------------------------------------------------------------------------
\* attribute assignment, the parameter dialog
\* ------------------------------------------------------------------------
\* alm.<field> = value
setattr(s, field, value) ==
    [s |-> [s EXCEPT !.cfg[field] = value], r |-> "None", raised |-> FALSE]

\* set_default leaving the horizon, which the timeline was built from, as it is
set_default_but_horizon(s) ==
    [ s |-> [s EXCEPT !.cfg = [ClassDefaults EXCEPT
                                 !.contracts_maturity = s.cfg.contracts_maturity]],
      r |-> "None", raised |-> FALSE ]

\* set_default: setattr(self, attr, val) for every attribute of the class that
\* is neither callable nor private, which are the configuration fields
set_default(s) ==
    [s |-> [s EXCEPT !.cfg = ClassDefaults], r |-> "None", raised |-> FALSE]

\* the fields of the dialog in the order validate applies them: the integer
\* parameters, then the floating-point parameters
DialogFields ==
    <<"insured_number", "insured_premium", "average_age", "contracts_maturity",
      "charges_rate", "fee_pct_premium", "fixed_fee", "fixed_cost_inflation",
      "redemption_rates">>

\* no parameter dialog is open
NoDialog == <<>>

\* load_parameters: every field shows str() of the engine's current value, a
\* text the conversion accepts
load_parameters(s) == [f \in Columns(DialogFields) |-> [ok |-> TRUE, v |-> s.cfg[f]]]

\* the range check of each field
InRange(field, v) ==
    CASE field = "insured_number" -> v > 0
      [] field = "insured_premium" -> v > 0
      [] field = "average_age" -> 18 <= v /\ v <= 100
      [] field = "contracts_maturity" -> 1 <= v /\ v <= 50
      [] field = "charges_rate" -> 0 <= v /\ v <= One
      [] field = "fee_pct_premium" -> 0 <= v /\ v <= One
      [] field = "fixed_fee" -> v >= 0
      [] field = "fixed_cost_inflation" -> -Dec(1, 10) <= v /\ v <= Dec(5, 10)
      [] field = "redemption_rates" -> 0 <= v /\ v <= One

\* _apply_integer_parameters then _apply_float_parameters: each field is
\* converted, checked and assigned before the next one is read
RECURSIVE ApplyParameters(_, _, _)
ApplyParameters(c, form, i) ==
    IF i > Len(DialogFields) THEN [cfg |-> c, ok |-> TRUE]
    ELSE LET field == DialogFields[i]
         IN  IF form[field].ok /\ InRange(field, form[field].v)
             THEN ApplyParameters([c EXCEPT ![field] = form[field].v], form, i + 1)
             ELSE [cfg |-> c, ok |-> FALSE]

\* parameter_Dialog.validate: r tells whether the dialog closed
validate(s, form) ==
    [ s |-> [s EXCEPT !.cfg = ApplyParameters(s.cfg, form, 1).cfg],
      r |-> ApplyParameters(s.cfg, form, 1).ok, raised |-> FALSE ]

\* ------------------------------------------------------------------------
\* The state machine
\* ------------------------------------------------------------------------
\* a call: what it returned or raised, and the instance as it left it.
\* inexact is the set of surplus columns of a returned asset-liability table in
\* which float64 rounded a difference total_assets - total_liabilities
\* (ALM.py:1031-1032), so that the stored surplus plus the liabilities differs
\* from the assets in the last binary places of that row.  Whether a
\* difference is rounded is decided by digits below the currency unit, so
\* each surplus column of a table with rows takes either outcome.
Commit(op, out) ==
    /\ \E inexact \in SUBSET
            (IF op = "report_asset_liability" /\ ~out.raised /\ Len(out.r.index) > 0
             THEN {"Surplus BV", "Surplus MV"} ELSE {}) :
            ret' = [op |-> op, raised |-> out.raised, value |-> out.r, inexact |-> inexact]
    /\ cfg' = out.s.cfg
    /\ years' = out.s.years
    /\ attrs' = out.s.attrs
    /\ market' = out.s.market
    /\ curve' = out.s.curve
    /\ assets' = out.s.assets
    /\ liabs' = out.s.liabs
    /\ results' = out.s.results
    /\ rng' = out.s.rng

\* the state after alm = ALM(**overrides)
Installed(s, overrides) ==
    /\ cfg = s.cfg
    /\ years = s.years
    /\ attrs = s.attrs
    /\ market = s.market
    /\ curve = s.curve
    /\ assets = s.assets
    /\ liabs = s.liabs
    /\ results = s.results
    /\ rng = s.rng
    /\ ret = [op |-> "__init__", raised |-> FALSE, value |-> overrides, inexact |-> {}]
    /\ changes = 0
    /\ calls = 0
    /\ dialog = NoDialog

Constructed(overrides, seed) ==
    Installed(New(overrides, [seed |-> seed, pos |-> 0]), overrides)

Init == \E overrides \in ConstructorOverrides, seed \in Seeds : Constructed(overrides, seed)

\* the window loads the market data once, right after it constructed the
\* engine and before the first report
LoadData ==
    /\ calls = 0
    /\ ret.op = "__init__"
    /\ \E data_files \in Directories :
        Commit("_load_market_data", load_market_data(Self, data_files, 1))
    /\ UNCHANGED <<changes, calls, dialog>>

ReportDiscountRate ==
    /\ calls < MaxCalls
    /\ \E selected_maturity \in {"5Y", "30Y"} :
        Commit("report_discount_rate", report_discount_rate(Self, selected_maturity))
    /\ calls' = calls + 1
    /\ UNCHANGED <<changes, dialog>>

ReportNeutralRisk ==
    /\ calls < MaxCalls
    /\ Commit("report_neutral_risk", report_neutral_risk(Self))
    /\ calls' = calls + 1
    /\ UNCHANGED <<changes, dialog>>

AssetsVariablesProjection ==
    /\ calls < MaxCalls
    /\ Commit("assets_variables_projection", assets_variables_projection(Self))
    /\ calls' = calls + 1
    /\ UNCHANGED <<changes, dialog>>

TotalAssetsBookedValue ==
    /\ calls < MaxCalls
    /\ Commit("total_assets_booked_value", total_assets_booked_value(Self))
    /\ calls' = calls + 1
    /\ UNCHANGED <<changes, dialog>>

TotalAssetsMarketValue ==
    /\ calls < MaxCalls
    /\ Commit("total_assets_market_value", total_assets_market_value(Self))
    /\ calls' = calls + 1
    /\ UNCHANGED <<changes, dialog>>

VariationPmvlReference ==
    /\ calls < MaxCalls
    /\ Commit("variation_pmvl_reference", variation_pmvl_reference(Self))
    /\ calls' = calls + 1
    /\ UNCHANGED <<changes, dialog>>

CashFlowsLiabilities ==
    /\ calls < MaxCalls
    /\ Commit("cash_flows_liabilities", cash_flows_liabilities(Self))
    /\ calls' = calls + 1
    /\ UNCHANGED <<changes, dialog>>

CalculationBEL ==
    /\ calls < MaxCalls
    /\ Commit("calculation_BEL", calculation_BEL(Self))
    /\ calls' = calls + 1
    /\ UNCHANGED <<changes, dialog>>

LocalGaapPnl ==
    /\ calls < MaxCalls
    /\ Commit("local_gaap_pnl", local_gaap_pnl(Self))
    /\ calls' = calls + 1
    /\ UNCHANGED <<changes, dialog>>

ValueInForce ==
    /\ calls < MaxCalls
    /\ Commit("value_in_force", value_in_force(Self))
    /\ calls' = calls + 1
    /\ UNCHANGED <<changes, dialog>>

TotalValueOptionsGarantees ==
    /\ calls < MaxCalls
    /\ Commit("total_value_options_garantees", total_value_options_garantees(Self))
    /\ calls' = calls + 1
    /\ UNCHANGED <<changes, dialog>>

TotalLiabilitiesVnc ==
    /\ calls < MaxCalls
    /\ Commit("total_liabilities_vnc", total_liabilities_vnc(Self))
    /\ calls' = calls + 1
    /\ UNCHANGED <<changes, dialog>>

TotalLiabilitiesVm ==
    /\ calls < MaxCalls
    /\ Commit("total_liabilities_vm", total_liabilities_vm(Self))
    /\ calls' = calls + 1
    /\ UNCHANGED <<changes, dialog>>

ReportAssetLiability ==
    /\ calls < MaxCalls
    /\ Commit("report_asset_liability", report_asset_liability(Self))
    /\ calls' = calls + 1
    /\ UNCHANGED <<changes, dialog>>

ReportCashFlow ==
    /\ calls < MaxCalls
    /\ Commit("report_cash_flow", report_cash_flow(Self))
    /\ calls' = calls + 1
    /\ UNCHANGED <<changes, dialog>>

\* alm.load_data_from_file(file, data_type) once methods have been called, by
\* a program that drives the engine without the dialog
Reload ==
    /\ dialog = NoDialog
    /\ calls > 0
    /\ calls < MaxCalls
    /\ changes < MaxChanges
    /\ \E load \in Loads :
        Commit("load_data_from_file", load_data_from_file(Self, load[1], load[2]))
    /\ changes' = changes + 1
    /\ UNCHANGED <<calls, dialog>>

\* alm.<field> = <value>
Assign ==
    /\ calls < MaxCalls
    /\ changes < MaxChanges
    /\ \E a \in { <<"insured_premium", 40000>>, <<"contracts_maturity", 2>>,
                   <<"bonds_initial_vnc", 900000>>, <<"guaranteed_minimum_rate", 0>> } :
        Commit("setattr", setattr(Self, a[1], a[2]))
    /\ changes' = changes + 1
    /\ UNCHANGED <<calls, dialog>>

\* MyWindow.onParameters: a dialog is constructed and shown, its fields filled
\* with the values the engine holds at that moment; the window goes on
\* responding while the dialog is open, so reports may follow
DialogOpen ==
    /\ dialog = NoDialog
    /\ calls < MaxCalls
    /\ changes < MaxChanges
    /\ dialog' = load_parameters(Self)
    /\ UNCHANGED <<cfg, years, attrs, market, curve, assets, liabs, results, rng, ret,
                   changes, calls>>

\* the user types over the texts of the open dialog (a shorter horizon, or a
\* new premium followed by an age the dialog rejects) and clicks Validate: the
\* nine texts are written back, and the dialog closes when all were accepted.
\* A dialog that was opened may still be validated after a change made while
\* it was open
DialogValidate ==
    /\ dialog # NoDialog
    /\ changes <= MaxChanges
    /\ \E edits \in { [contracts_maturity |-> [ok |-> TRUE, v |-> 2]],
                       [ insured_premium |-> [ok |-> TRUE, v |-> 40000],
                         average_age |-> [ok |-> TRUE, v |-> 17] ] } :
        /\ Commit("validate", validate(Self, Merge(dialog, edits)))
        /\ dialog' = IF validate(Self, Merge(dialog, edits)).r THEN NoDialog
                     ELSE Merge(dialog, edits)
    /\ changes' = changes + 1
    /\ UNCHANGED calls

\* the Cancel button: the dialog closes
DialogCancel ==
    /\ dialog # NoDialog
    /\ dialog' = NoDialog
    /\ UNCHANGED <<cfg, years, attrs, market, curve, assets, liabs, results, rng, ret,
                   changes, calls>>

\* the Default button: self.ALM.set_default(), then the fields are filled again
\* from the engine; as the last step of a run, like SetDefault
DialogDefault ==
    /\ dialog # NoDialog
    /\ calls = MaxCalls
    /\ changes < MaxChanges
    /\ Commit("default", set_default(Self))
    /\ dialog' = load_parameters(set_default(Self).s)
    /\ changes' = changes + 1
    /\ UNCHANGED calls

\* alm.set_default() as the last step
\* of a run: the class defaults describe a portfolio of 10000 contracts, whose
\* projected amounts exceed MaxInt
SetDefault ==
    /\ calls = MaxCalls
    /\ changes < MaxChanges
    /\ Commit("set_default", set_default(Self))
    /\ changes' = changes + 1
    /\ UNCHANGED <<calls, dialog>>

Next ==
    \/ LoadData
    \/ ReportDiscountRate
    \/ ReportNeutralRisk
    \/ AssetsVariablesProjection
    \/ TotalAssetsBookedValue
    \/ TotalAssetsMarketValue
    \/ VariationPmvlReference
    \/ CashFlowsLiabilities
    \/ CalculationBEL
    \/ LocalGaapPnl
    \/ ValueInForce
    \/ TotalValueOptionsGarantees
    \/ TotalLiabilitiesVnc
    \/ TotalLiabilitiesVm
    \/ ReportAssetLiability
    \/ ReportCashFlow

\* an engine is constructed, market data is loaded, methods are called
Spec == Init /\ [][Next]_vars

\* the same on an engine constructed with the longest horizon, with a change
\* of configuration or of market data before or between the calls
InitPlain ==
    \E seed \in Seeds :
        Constructed([contracts_maturity |-> MaxMaturity, insured_number |-> 1000], seed)

NextChange ==
    \/ Next
    \/ Reload
    \/ Assign
    \/ DialogOpen
    \/ DialogValidate
    \/ DialogCancel
    \/ DialogDefault
    \/ SetDefault

SpecChange == InitPlain /\ [][NextChange]_vars

\* ------------------------------------------------------------------------
\* Properties
\* ------------------------------------------------------------------------
\* a DataFrame with these columns, each as long as the index (which may be empty)
IsTable(v, names) ==
    /\ v.names = names
    /\ \A c \in Columns(names) : Len(v.col[c]) = Len(v.index)

\* every attribute a method derives from the configuration, the market data
\* and the curve
DerivedAttributes ==
    AssetArrays \cup LiabilityArrays \cup
    { "asset_projections", "liability_projections", "bel_results", "pnl_results",
      "vif_results", "options_guarantees_results", "al_summary", "cf_metrics",
      "neutral_risk_factor" }

\* the instance with the same configuration, market data, curve and generator
\* and nothing derived stored on it
Uncached(s) ==
    [s EXCEPT !.attrs = @ \ DerivedAttributes, !.assets = NoAssets, !.liabs = NoLiabs,
              !.results = NoResults]

DependentOps ==
    { "report_asset_liability", "report_cash_flow", "calculation_BEL", "local_gaap_pnl",
      "value_in_force", "total_liabilities_vm" }

Call(op, s) ==
    CASE op = "report_asset_liability" -> report_asset_liability(s)
      [] op = "report_cash_flow" -> report_cash_flow(s)
      [] op = "calculation_BEL" -> calculation_BEL(s)
      [] op = "local_gaap_pnl" -> local_gaap_pnl(s)
      [] op = "value_in_force" -> value_in_force(s)
      [] op = "total_liabilities_vm" -> total_liabilities_vm(s)

ChangeOps == {"setattr", "validate", "load_data_from_file"}

\* C1: when a configuration field was assigned, the dialog validated or market
\* data reloaded while derived results were stored, the next call of
\* report_asset_liability, report_cash_flow, calculation_BEL, local_gaap_pnl,
\* value_in_force or total_liabilities_vm returns what an engine with the same
\* configuration, market data, curve and shocks and nothing stored returns.
\* The shocks are all zero here, so that they are the same whenever drawn.
C1_RecomputedAfterChange ==
    [][ ( /\ calls' = calls + 1
          /\ ret'.op \in DependentOps
          /\ ret.op \in ChangeOps
          /\ changes > 0
          /\ attrs \cap DerivedAttributes # {}
          /\ \A i \in 1..Len(rng.seed) : rng.seed[i] = 0 )
        => ret'.value = Call(ret'.op, Uncached(Self)).r ]_vars

ReportOps ==
    { "report_discount_rate", "report_neutral_risk", "report_asset_liability",
      "report_cash_flow" }

ReportColumns(op) ==
    CASE op = "report_discount_rate" -> DiscountColumns
      [] op = "report_neutral_risk" -> NeutralColumns
      [] op = "report_asset_liability" -> AssetLiabilityColumns
      [] op = "report_cash_flow" -> CashFlowColumns

\* C2 as stated: whatever the state of the engine, each of report_discount_rate,
\* report_neutral_risk, report_asset_liability and report_cash_flow returns a
\* table and raises nothing.
C2_ReportsTotal ==
    ret.op \in ReportOps => ~ret.raised /\ IsTable(ret.value, ReportColumns(ret.op))

\* C2 amended: report_discount_rate, report_asset_liability and report_cash_flow
\* return a table and raise nothing, whatever the state of the engine;
\* report_neutral_risk returns a table when a discount curve has been computed
\* and raises AttributeError when none has.
C2_ReportsTotalButNeutralRisk ==
    /\ ret.op \in ReportOps \ {"report_neutral_risk"}
         => ~ret.raised /\ IsTable(ret.value, ReportColumns(ret.op))
    /\ ret.op = "report_neutral_risk"
         => IF "deflator" \in attrs
            THEN ~ret.raised /\ IsTable(ret.value, NeutralColumns)
            ELSE ret.raised /\ ret.value = "AttributeError"

\* report_neutral_risk was called on an engine without a discount curve
C2_NeutralRiskWithoutCurve ==
    ret.op = "report_neutral_risk" /\ "deflator" \notin attrs /\ ret.raised

AssetDependentOps ==
    { "assets_variables_projection", "report_asset_liability", "report_cash_flow",
      "local_gaap_pnl", "value_in_force" }

\* C3: when forward rates are loaded and neither a discount curve nor an asset
\* projection is stored, a call of assets_variables_projection,
\* report_asset_liability, report_cash_flow, local_gaap_pnl or value_in_force
\* leaves the asset projection that a call made after report_discount_rate()
\* leaves.
C3_CurveBeforeProjection ==
    [][ ( /\ calls' = calls + 1
          /\ ret'.op \in AssetDependentOps
          /\ "forward_rates" \in attrs
          /\ "deflator" \notin attrs
          /\ "asset_projections" \notin attrs )
        => assets' = assets_variables_projection(report_discount_rate(Self, "5Y").s).s.assets
      ]_vars

\* C4: in every state the timeline has contracts_maturity years and starts at
\* opening_year.
C4_TimelineMatchesConfig ==
    /\ Len(years) = cfg.contracts_maturity
    /\ years # <<>> => years[1] = cfg.opening_year

\* C5: every engine that exists has allocations that add up to one.
C5_AllocationsAddUpToOne ==
    cfg.alloc_bonds + cfg.alloc_stocks + cfg.alloc_cash = One

\* C6: in every projection assets_variables_projection returns, the market
\* value of the stocks grows by exactly 8% a year, whether or not a curve with
\* volatilities has been computed.
C6_StocksGrowByExpectedReturn ==
    (ret.op = "assets_variables_projection" /\ ret.value # EmptyDict)
    => \A i \in 2..Len(ret.value.stocks_mv) :
          ret.value.stocks_mv[i] = MulR(ret.value.stocks_mv[i - 1], One + Dec(8, 100))

\* C7: in every result total_value_options_garantees returns, whether or not
\* an asset projection was stored before the call, gmdb_value[t] is
\* max(0, 10 * insured_premium - account value) for every year t and
\* gmab_value[t] is max(0, insured_premium * (1 + guaranteed_minimum_rate)^t
\* - account value) for every t > 0, the account value being
\* total_assets_market_value()[t] / insured_number.
C7_GuaranteesAgainstAccountValue ==
    (ret.op = "total_value_options_garantees" /\ ret.value # EmptyDict)
    => \A t \in 0..(Len(years) - 1) :
          LET account_value == At(total_assets_market_value(Self).r, t) \div cfg.insured_number
              guaranteed_value ==
                  MulR(cfg.insured_premium, PowR(One + cfg.guaranteed_minimum_rate, t))
          IN  /\ At(ret.value.gmdb_value, t) = Max(0, cfg.insured_premium * 10 - account_value)
              /\ t > 0 => At(ret.value.gmab_value, t) = Max(0, guaranteed_value - account_value)

Rounding(amount) == Abs(amount) \div RateScale + 1

\* C9 as stated: in every row of the cash-flow report with Total Outflows > 0,
\* CF Coverage Ratio * Total Outflows = Total Inflows (to the rounding of the
\* ratio), where Total Inflows = Premium Income + Investment Income and Total
\* Outflows = Benefit Payments + Surrender Benefits + Expenses.
C9_RatioIsInflowsOverOutflows ==
    (ret.op = "report_cash_flow" /\ ~ret.raised)
    => \A i \in 1..Len(ret.value.index) :
          LET col == ret.value.col
          IN  col["Total Outflows"][i] > 0
              => /\ col["CF Coverage Ratio"][i].tag = "fin"
                 /\ Abs(MulR(col["Total Outflows"][i], col["CF Coverage Ratio"][i].v)
                          - col["Total Inflows"][i]) <= Rounding(col["Total Outflows"][i])
                 /\ col["Total Inflows"][i] = col["Premium Income"][i] + col["Investment Income"][i]
                 /\ col["Total Outflows"][i] = col["Benefit Payments"][i]
                      + col["Surrender Benefits"][i] + col["Expenses"][i]

\* C9 amended: in every row of the cash-flow report with Total Outflows > 0,
\* CF Coverage Ratio * Total Outflows = Investment Income (to the rounding of
\* the ratio): the premiums are no part of the ratio. Total Inflows = Premium
\* Income + Investment Income and Total Outflows = Benefit Payments +
\* Surrender Benefits + Expenses.
C9_RatioIsInvestmentIncomeOverOutflows ==
    (ret.op = "report_cash_flow" /\ ~ret.raised)
    => \A i \in 1..Len(ret.value.index) :
          LET col == ret.value.col
          IN  col["Total Outflows"][i] > 0
              => /\ col["CF Coverage Ratio"][i].tag = "fin"
                 /\ Abs(MulR(col["Total Outflows"][i], col["CF Coverage Ratio"][i].v)
                          - col["Investment Income"][i]) <= Rounding(col["Total Outflows"][i])
                 /\ col["Total Inflows"][i] = col["Premium Income"][i] + col["Investment Income"][i]
                 /\ col["Total Outflows"][i] = col["Benefit Payments"][i]
                      + col["Surrender Benefits"][i] + col["Expenses"][i]

\* report_cash_flow returned a table with a year of positive outflows and
\* positive premiums
C9_ReportWithOutflows ==
    /\ ret.op = "report_cash_flow"
    /\ \E i \in 1..Len(ret.value.index) :
          /\ ret.value.col["Total Outflows"][i] > 0
          /\ ret.value.col["Premium Income"][i] > 0

\* C10: report_cash_flow returns a table with a row for every year, and in
\* every row where Benefit Payments + Surrender Benefits + Expenses is exactly
\* zero the CF Coverage Ratio is +infinity.
C10_ZeroOutflowGivesInfinity ==
    ret.op = "report_cash_flow"
    => /\ ~ret.raised
       /\ IsTable(ret.value, CashFlowColumns)
       /\ Len(ret.value.index) = Len(years)
       /\ \A i \in 1..Len(ret.value.index) :
             LET col == ret.value.col
             IN  col["Benefit Payments"][i] + col["Surrender Benefits"][i] + col["Expenses"][i] = 0
                 => col["CF Coverage Ratio"][i] = Inf

\* report_cash_flow returned a table with a year without any outflow
C10_ReportWithZeroOutflow ==
    /\ ret.op = "report_cash_flow"
    /\ \E i \in 1..Len(ret.value.index) :
          /\ ret.value.col["Total Outflows"][i] = 0
          /\ ret.value.col["Investment Income"][i] > 0

\* C11: report_asset_liability returns its table without raising, and a
\* duration whose denominator, the sum of the discounted cash flows, is zero
\* is reported in al_summary as zero or as an infinity, and so is then the
\* duration gap.
C11_ZeroDenominatorGivesSentinel ==
    ret.op = "report_asset_liability"
    => /\ ~ret.raised
       /\ IsTable(ret.value, AssetLiabilityColumns)
       /\ ( /\ "deflator" \in attrs
            /\ \/ SumProduct(Array([i \in 1..Len(years) |->
                                      liabs.benefit_payments[i] + liabs.surrender_benefits[i]],
                                   Len(years)),
                             curve.deflator) = 0
               \/ SumProduct(Array([i \in 1..Len(years) |->
                                      MulR(assets.bonds_vnc[i], cfg.coupon_rate)],
                                   Len(years)),
                             curve.deflator) = 0 )
          => \A d \in { results.al_summary.asset_duration,
                        results.al_summary.liability_duration,
                        results.al_summary.duration_gap } :
                d \in {Fin(0), Inf, NegInf}

\* C12: the contracts in force, premium_income[t] / insured_premium, never
\* increase from one year to the next and never fall below zero, whatever
\* redemption rate in [0, 1] and mortality table the engine was given.
C12_ContractsInForceDecrease ==
    ( /\ "liability_projections" \in attrs
      /\ cfg.insured_premium > 0
      /\ cfg.redemption_rates >= 0
      /\ cfg.redemption_rates <= One )
    => \A i \in 1..Len(liabs.premium_income) :
          /\ liabs.premium_income[i] >= 0
          /\ i > 1 => liabs.premium_income[i] <= liabs.premium_income[i - 1]

\* C13: premium_income[0] = insured_number * insured_premium, and for t >= 1
\* premium_income[t] = premium_income[t-1] * (1 - mortality_rate[t] -
\* redemption_rates), to the resolution of the stored contracts in force;
\* 1000 contracts at 50000 with a mortality of 1% and a redemption rate of 5%
\* give premium_income[1] = 47,000,000, that is 940 contracts in force.
C13_PremiumRecursion ==
    "liability_projections" \in attrs
    => /\ liabs.premium_income[1] = cfg.insured_number * cfg.insured_premium
       /\ \A i \in 2..Len(liabs.premium_income) :
             Abs(liabs.premium_income[i]
                   - MulR(liabs.premium_income[i - 1],
                          One - MortalityRate(Self, i - 1) - cfg.redemption_rates))
               <= cfg.insured_premium \div CountScale + 2
       /\ ( /\ cfg.insured_number = 1000
            /\ cfg.insured_premium = 50000
            /\ cfg.redemption_rates = Dec(5, 100)
            /\ Len(liabs.premium_income) >= 2
            /\ MortalityRate(Self, 1) = Dec(1, 100) )
          => /\ liabs.premium_income[2] = 47000000
             /\ liabs.premium_income[2] = 940 * cfg.insured_premium

\* the liabilities were projected over three years from 1000 contracts at
\* 50000 under the 1% mortality table and the 5% redemption rate
C13_ProjectedUnderOnePercentMortality ==
    /\ "liability_projections" \in attrs
    /\ Len(liabs.premium_income) = 3
    /\ "mortality_table" \in attrs
    /\ MortalityRate(Self, 1) = Dec(1, 100)
    /\ MortalityRate(Self, 2) = Dec(5, 100)
    /\ cfg.redemption_rates = Dec(5, 100)
    /\ liabs.premium_income[2] = 47000000

\* C14: with a mortality table whose Qx is 0 at every age and a redemption
\* rate of 0, the premium income stays at insured_number * insured_premium in
\* every year (the contracts in force stay at insured_number), the benefit
\* payments and the surrender benefits are 0 in every year, and with a
\* guaranteed minimum rate >= 0 the technical reserves never decrease.
C14_NoDecrementsNoClaims ==
    ( /\ "liability_projections" \in attrs
      /\ "mortality_table" \in attrs
      /\ cfg.average_age + Len(years) <= Len(market.mortality_table.index)
      /\ \A a \in 1..Len(market.mortality_table.index) : market.mortality_table.col["Qx"][a] = 0
      /\ cfg.redemption_rates = 0 )
    => /\ Len(liabs.premium_income) = Len(years)
       /\ \A i \in 1..Len(years) :
             /\ liabs.premium_income[i] = cfg.insured_number * cfg.insured_premium
             /\ liabs.benefit_payments[i] = 0
             /\ liabs.surrender_benefits[i] = 0
             /\ (i > 1 /\ cfg.guaranteed_minimum_rate >= 0)
                => liabs.technical_reserves[i] >= liabs.technical_reserves[i - 1]

\* the liabilities were projected over three years with no deaths and no
\* surrenders, and the reserves grew
C14_ProjectedWithoutDecrements ==
    /\ "liability_projections" \in attrs
    /\ "mortality_table" \in attrs
    /\ cfg.average_age + Len(years) <= Len(market.mortality_table.index)
    /\ \A a \in 1..Len(market.mortality_table.index) : market.mortality_table.col["Qx"][a] = 0
    /\ cfg.redemption_rates = 0
    /\ Len(years) = 3
    /\ liabs.premium_income[3] = 50000000
    /\ liabs.technical_reserves[3] > liabs.technical_reserves[2]

\* report_neutral_risk returned its table on an engine with a positive
\* nominal, market value and deflators and a coupon rate >= 0
CalibrationMade ==
    /\ ret.op = "report_neutral_risk"
    /\ ~ret.raised
    /\ cfg.nominal > 0
    /\ cfg.coupon_rate >= 0
    /\ cfg.bonds_initial_mv > 0
    /\ \A i \in 1..Len(curve.deflator) : curve.deflator[i] > 0

\* the calibration reconciles: the bond cash flows are the coupon in years
\* 1..n-1 plus the nominal in the final year, total_pv_bonds is the sum of all
\* of them discounted, the factor is bonds_initial_mv / total_pv_bonds, and
\* pv_neutral_check is bonds_initial_mv within 0.1%
Reconciled ==
    LET n == Len(curve.deflator)
        bond_cf == ret.value.col["Bond CF"]
    IN  /\ Len(bond_cf) = n
        /\ \A i \in 1..n :
              bond_cf[i] = (IF i > 1 THEN MulR(cfg.nominal, cfg.coupon_rate) ELSE 0)
                             + (IF i = n THEN cfg.nominal ELSE 0)
        /\ results.neutral.total_pv_bonds
             = SumSeq(Array([i \in 1..n |-> MulR(bond_cf[i], curve.deflator[i])], n))
        /\ results.neutral.neutral_factor_value
             = Ratio(cfg.bonds_initial_mv, results.neutral.total_pv_bonds)
        /\ Abs(results.neutral.pv_neutral_check - cfg.bonds_initial_mv) * 1000
             <= cfg.bonds_initial_mv

\* C15 as stated: the calibration reconciles for every contracts_maturity
\* n >= 1.
C15_ReconcilesForEveryHorizon ==
    (CalibrationMade /\ Len(curve.deflator) >= 1) => Reconciled

\* C15, amended: the calibration reconciles for every contracts_maturity
\* n >= 2; with n = 1 no cash flow falls after year 0, total_pv_bonds is 0,
\* the factor is 1.0 and pv_neutral_check is 0.
C15_ReconcilesFromTwoYears ==
    CalibrationMade
    => IF Len(curve.deflator) >= 2 THEN Reconciled
       ELSE /\ results.neutral.total_pv_bonds = 0
            /\ results.neutral.neutral_factor_value = One
            /\ results.neutral.pv_neutral_check = 0

\* report_neutral_risk calibrated a factor other than 1 over three years
C15_CalibratedOverThreeYears ==
    /\ CalibrationMade
    /\ Len(curve.deflator) = 3
    /\ results.neutral.total_pv_bonds > cfg.bonds_initial_mv
    /\ results.neutral.neutral_factor_value < One

\* C16: report_neutral_risk called again on the instance a call of it has
\* just left, with the deflator and the bond parameters as they were, returns
\* the same table and stores the same neutral_factor_value, pv_neutral_check
\* and total_pv_bonds, and changes nothing else on the instance.
C16_CalibrationIdempotent ==
    (ret.op = "report_neutral_risk" /\ ~ret.raised)
    => /\ ~report_neutral_risk(Self).raised
       /\ report_neutral_risk(Self).r = ret.value
       /\ report_neutral_risk(Self).s.results.neutral.neutral_factor_value
            = results.neutral.neutral_factor_value
       /\ report_neutral_risk(Self).s.results.neutral.pv_neutral_check
            = results.neutral.pv_neutral_check
       /\ report_neutral_risk(Self).s.results.neutral.total_pv_bonds
            = results.neutral.total_pv_bonds
       /\ report_neutral_risk(Self).s = Self

\* report_neutral_risk has stored a calibration over three years whose factor
\* is not 1
C16_CalibrationStored ==
    /\ ret.op = "report_neutral_risk"
    /\ ~ret.raised
    /\ "neutral_risk_factor" \in attrs
    /\ Len(ret.value.index) = 3
    /\ results.neutral.neutral_factor_value # One
    /\ results.neutral.pv_neutral_check > 0

\* report_discount_rate returned a curve
CurveReturned ==
    /\ ret.op = "report_discount_rate"
    /\ ~ret.raised
    /\ Len(ret.value.index) > 0

\* row i of the report: the deflator is (1 + Spot Rate) ^ -(i - 1), and the
\* Discount Rate, deflator ^ (-1 / (i - 1)) - 1, is the Spot Rate to within two
\* millionths, the resolution of the rates here (1e-9 in floating point)
RoundTrip(i) ==
    LET col == ret.value.col
    IN  /\ col["Deflator"][i] = DivR(One, PowR(One + col["Spot Rate"][i], i - 1))
        /\ Abs(col["Discount Rate"][i] - col["Spot Rate"][i]) <= 2

\* C17 as stated: in the report of report_discount_rate the Discount Rate
\* equals the Spot Rate at every index t of the timeline, with
\* discount_rate[0] = 0.
C17_RoundTripEveryYear ==
    CurveReturned
    => /\ ret.value.col["Discount Rate"][1] = 0
       /\ \A i \in 1..Len(ret.value.index) : RoundTrip(i)

\* C17, amended: the Discount Rate equals the Spot Rate at every index t >= 1
\* of the timeline where the spot rate is above -100%; at t = 0 the Discount
\* Rate is 0 and the Spot Rate is the forward rate of the base year.
C17_RoundTripFromYearOne ==
    CurveReturned
    => /\ ret.value.col["Discount Rate"][1] = 0
       /\ ret.value.col["Spot Rate"][1] = ret.value.col["Forward Rate"][1]
       /\ \A i \in 2..Len(ret.value.index) :
             ret.value.col["Spot Rate"][i] > -One => RoundTrip(i)

\* report_discount_rate returned a curve of three years whose spot rate of
\* year 2 was bootstrapped from two different forward rates
C17_CurveOfThreeYears ==
    /\ CurveReturned
    /\ Len(ret.value.index) = 3
    /\ ret.value.col["Forward Rate"][3] # ret.value.col["Forward Rate"][2]
    /\ ret.value.col["Spot Rate"][3] > 0
    /\ ret.value.col["Deflator"][3] < ret.value.col["Deflator"][2]

\* C18: after a successful report_discount_rate over a horizon of two years or
\* more, the arrays stored and returned have deflator[0] = 1,
\* discount_rate[0] = 0, spot_rate[0] = forward[0], spot_rate[1] = forward[1]
\* and deflator[1] = 1 / (1 + forward[1]); a forward[1] of 0.021 gives a
\* deflator[1] of 1 / 1.021, 0.979431 to six places.
C18_BaseYearConventions ==
    (CurveReturned /\ Len(years) >= 2)
    => /\ curve.deflator = ret.value.col["Deflator"]
       /\ curve.discount_rates = ret.value.col["Discount Rate"]
       /\ curve.spot_rates = ret.value.col["Spot Rate"]
       /\ curve.forward_rates_selected = ret.value.col["Forward Rate"]
       /\ At(curve.deflator, 0) = One
       /\ At(curve.discount_rates, 0) = 0
       /\ At(curve.spot_rates, 0) = At(curve.forward_rates_selected, 0)
       /\ At(curve.spot_rates, 1) = At(curve.forward_rates_selected, 1)
       /\ At(curve.deflator, 1) = DivR(One, One + At(curve.forward_rates_selected, 1))
       /\ At(curve.forward_rates_selected, 1) = Dec(21, 1000)
          => At(curve.deflator, 1) = 979431

\* report_discount_rate stored a curve whose forward rate of year 1 is 0.021
\* and differs from that of year 0
C18_CurveWithForwardOfYearOne ==
    /\ CurveReturned
    /\ Len(years) >= 2
    /\ At(curve.forward_rates_selected, 1) = Dec(21, 1000)
    /\ At(curve.forward_rates_selected, 0) # At(curve.forward_rates_selected, 1)
    /\ At(curve.deflator, 1) < One

\* the step is a call report_discount_rate(m)
CalledWith(m) ==
    /\ calls' = calls + 1
    /\ ret'.op = "report_discount_rate"
    /\ Commit("report_discount_rate", report_discount_rate(Self, m))

\* a forward-rate table is loaded and has no column m
ColumnAbsent(m) ==
    /\ "forward_rates" \in attrs
    /\ ~HasColumn(market.forward_rates, m)

\* the call returned the empty report and stored nothing
CallFailed ==
    /\ IsTable(ret'.value, DiscountColumns)
    /\ Len(ret'.value.index) = 0
    /\ UNCHANGED <<attrs, curve>>

\* C19 as stated: report_discount_rate(m) called when the loaded forward-rate
\* table has no column m returns the empty report and caches no curve; it
\* builds no curve from another column.
C19_FailsWhenColumnAbsent ==
    [][ \A m \in {"5Y", "30Y"} : (CalledWith(m) /\ ColumnAbsent(m)) => CallFailed ]_vars

\* C19, amended: report_discount_rate(m) called when the loaded table has no
\* column m fails (empty report, nothing cached) when the table has no column
\* at all; when the table has columns (and rows, over a timeline that is not
\* empty) it returns and caches the curve built from the first column.
C19_FailsWithoutAnyColumn ==
    [][ \A m \in {"5Y", "30Y"} :
          ( /\ CalledWith(m)
            /\ ColumnAbsent(m)
            /\ Len(years) > 0
            /\ Len(market.forward_rates.index) > 0 )
          => IF Len(market.forward_rates.names) = 0 THEN CallFailed
             ELSE /\ Len(ret'.value.index) = Len(years)
                  /\ \A i \in 1..Len(years) :
                        ret'.value.col["Forward Rate"][i]
                          = market.forward_rates.col[market.forward_rates.names[1]]
                                [NearestRow(market.forward_rates.index, years[i])]
                  /\ curve'.forward_rates_selected = ret'.value.col["Forward Rate"]
                  /\ "deflator" \in attrs' ]_vars

\* report_discount_rate was called with a table of dates without any column
\* loaded, and returned the empty report
C19_CalledWithoutAnyColumn ==
    /\ ret.op = "report_discount_rate"
    /\ "forward_rates" \in attrs
    /\ Len(market.forward_rates.names) = 0
    /\ Len(market.forward_rates.index) > 0
    /\ Len(ret.value.index) = 0
    /\ "deflator" \notin attrs

\* C20: in a stored asset projection the bond book value of every year t is
\* bonds_initial_vnc + t * (nominal - bonds_initial_vnc) / contracts_maturity,
\* to the unit: the same increment every year, toward the nominal without
\* crossing it.
C20_StraightLineAmortization ==
    ("asset_projections" \in attrs /\ cfg.contracts_maturity > 0)
    => \A i \in 1..Len(assets.bonds_vnc) :
          /\ Abs(assets.bonds_vnc[i]
                   - (cfg.bonds_initial_vnc
                        + ((i - 1) * (cfg.nominal - cfg.bonds_initial_vnc))
                            \div cfg.contracts_maturity)) <= 2
          /\ cfg.bonds_initial_vnc <= cfg.nominal => assets.bonds_vnc[i] <= cfg.nominal
          /\ i > 1 => assets.bonds_vnc[i] >= assets.bonds_vnc[i - 1]

\* C21: set_default, called on the engine or by the Default button of the
\* dialog, leaves every configuration field of the instance at its class
\* default, whatever it was before, and leaves the loaded market data
\* (forward_rates, liquidity_premium, mortality_table, repurchase_rates) and
\* the record of what is loaded as they were.
C21_SetDefaultRestoresConfiguration ==
    [][ (ret'.op \in {"set_default", "default"} /\ changes' = changes + 1)
        => /\ \A f \in DOMAIN ClassDefaults : cfg'[f] = ClassDefaults[f]
           /\ DOMAIN cfg' = DOMAIN ClassDefaults
           /\ market' = market
           /\ \A d \in {"forward_rates", "liquidity_premium", "mortality_table",
                        "repurchase_rates"} : d \in attrs' <=> d \in attrs ]_vars

\* set_default ran on an engine constructed with overrides that had loaded
\* the four files
C21_DefaultsRestoredWithDataLoaded ==
    /\ ret.op = "set_default"
    /\ {"forward_rates", "liquidity_premium", "mortality_table", "repurchase_rates"}
         \subseteq attrs
    /\ Len(market.repurchase_rates.index) > 0
    /\ Len(market.forward_rates.index) > 0
    /\ cfg.insured_number = 10000
    /\ cfg.contracts_maturity # Len(years)

\* the Qx of the row of the loaded mortality table whose age key is age, 5%
\* when the table has no such row
QxAtAge(age) ==
    IF \E r \in 1..Len(market.mortality_table.index) : market.mortality_table.index[r] = age
    THEN market.mortality_table.col["Qx"]
             [CHOOSE r \in 1..Len(market.mortality_table.index) :
                  market.mortality_table.index[r] = age]
    ELSE Dec(5, 100)

\* C22: with a mortality table loaded, the mortality rate applied in year t of
\* a stored liability projection is the Qx of the row whose age key is
\* average_age + t, or 5% when the table has no such row: the death benefits
\* of year t are that rate times the contracts in force of the year
\* (premium_income[t] / insured_premium) times 10 premiums.
C22_MortalityLookedUpByAge ==
    ("liability_projections" \in attrs /\ "mortality_table" \in attrs)
    => \A i \in 1..Len(liabs.benefit_payments) :
          Abs(liabs.benefit_payments[i]
                - 10 * MulR(liabs.premium_income[i], QxAtAge(cfg.average_age + i - 1)))
            <= 10 * (cfg.insured_premium \div CountScale + 2)

\* C23: in a stored liability projection technical_reserves[0] is 0.8 *
\* premium_income[0], and for every t >= 1 technical_reserves[t] is
\* technical_reserves[t-1] * (1 + guaranteed_minimum_rate) + 0.8 *
\* premium_income[t] - (benefit_payments[t] + surrender_benefits[t]), to the
\* unit, where benefit_payments[t] is the mortality rate of year t times the
\* contracts in force times 10 premiums and surrender_benefits[t] is
\* redemption_rates times the contracts in force times 8 premiums, to the
\* resolution of the contracts in force.
C23_TechnicalReservesRecursion ==
    "liability_projections" \in attrs
    => /\ liabs.technical_reserves[1] = MulR(liabs.premium_income[1], Dec(8, 10))
       /\ \A i \in 2..Len(liabs.technical_reserves) :
             Abs(liabs.technical_reserves[i]
                   - (MulR(liabs.technical_reserves[i - 1], One + cfg.guaranteed_minimum_rate)
                        + MulR(liabs.premium_income[i], Dec(8, 10))
                        - (liabs.benefit_payments[i] + liabs.surrender_benefits[i]))) <= 1
       /\ \A i \in 1..Len(liabs.technical_reserves) :
             /\ Abs(liabs.benefit_payments[i]
                      - 10 * MulR(liabs.premium_income[i], MortalityRate(Self, i - 1)))
                  <= 10 * (cfg.insured_premium \div CountScale + 2)
             /\ Abs(liabs.surrender_benefits[i]
                      - 8 * MulR(liabs.premium_income[i], cfg.redemption_rates))
                  <= 8 * (cfg.insured_premium \div CountScale + 2)

\* the liabilities were projected over three years with claims in every year
\* and interest credited on the reserves
C23_ReservesRolledForward ==
    /\ "liability_projections" \in attrs
    /\ Len(liabs.technical_reserves) = 3
    /\ cfg.guaranteed_minimum_rate > 0
    /\ \A i \in 1..3 : liabs.benefit_payments[i] > 0 /\ liabs.surrender_benefits[i] > 0
    /\ liabs.technical_reserves[3] # liabs.technical_reserves[2]

\* local_gaap_pnl returned the results it stored
PnlReturned ==
    /\ ret.op = "local_gaap_pnl"
    /\ ~ret.raised
    /\ "pnl_results" \in attrs
    /\ ret.value = results.pnl_results

\* C24: in the results of local_gaap_pnl, for every year t of the horizon, the
\* base year included, realized_gains[t] + unrealized_gains[t] is
\* (bonds_mv[t] - bonds_vnc[t]) + (stocks_mv[t] - stocks_vnc[t]), to the unit,
\* realized_gains[t] being 10% and unrealized_gains[t] 90% of that total.
C24_GainSplitEveryYear ==
    PnlReturned
    => \A i \in 1..Len(years) :
          LET total == (assets.bonds_mv[i] - assets.bonds_vnc[i])
                         + (assets.stocks_mv[i] - assets.stocks_vnc[i])
          IN  /\ Abs(ret.value.realized_gains[i] + ret.value.unrealized_gains[i] - total) <= 1
              /\ ret.value.realized_gains[i] = MulR(total, Dec(1, 10))
              /\ ret.value.unrealized_gains[i] = MulR(total, Dec(9, 10))

\* C25: in the results of local_gaap_pnl, with a tax rate in [0, 1], for every
\* year t pre_tax_income[t] is premium_revenue + investment_income +
\* realized_gains - (claim_expenses + operating_expenses), tax_expense[t] is
\* tax_rate * pre_tax_income[t] when that income is positive and 0 otherwise,
\* and net_income[t] = pre_tax_income[t] - tax_expense[t]: the net income of a
\* loss year is its loss, and the tax of a year depends on that year alone.
C25_TaxOnPositiveIncomeOnly ==
    (PnlReturned /\ cfg.tax_rate >= 0 /\ cfg.tax_rate <= One)
    => \A i \in 1..Len(years) :
          /\ ret.value.pre_tax_income[i]
               = ret.value.premium_revenue[i] + ret.value.investment_income[i]
                   + ret.value.realized_gains[i]
                   - (ret.value.claim_expenses[i] + ret.value.operating_expenses[i])
          /\ ret.value.tax_expense[i]
               = IF ret.value.pre_tax_income[i] > 0
                 THEN MulR(ret.value.pre_tax_income[i], cfg.tax_rate) ELSE 0
          /\ ret.value.net_income[i] = ret.value.pre_tax_income[i] - ret.value.tax_expense[i]
          /\ ret.value.pre_tax_income[i] <= 0
             => ret.value.net_income[i] = ret.value.pre_tax_income[i]

\* local_gaap_pnl returned results with a loss year followed by a profit year
\* that is taxed
C25_LossYearThenProfitYear ==
    /\ PnlReturned
    /\ \E i \in 1..Len(years), j \in 1..Len(years) :
          /\ i < j
          /\ ret.value.pre_tax_income[i] < 0
          /\ ret.value.pre_tax_income[j] > 0
          /\ ret.value.tax_expense[j] > 0

\* the sum over the whole horizon of series[t] * deflator[t], with the
\* deflator the instance holds
PresentValue(series) ==
    SumSeq(Array([i \in 1..Len(series) |-> MulR(series[i], curve.deflator[i])], Len(series)))

\* C26: in every result of calculation_BEL that is not empty, bel_gross =
\* pv_benefits + pv_surrenders + pv_expenses, bel_net = bel_gross -
\* pv_premiums, risk_margin is 6% of bel_gross and technical_provisions =
\* bel_net + risk_margin, each pv being the sum over the whole horizon of the
\* series times the deflator the instance holds.
C26_BelAggregation ==
    (ret.op = "calculation_BEL" /\ DOMAIN ret.value # {})
    => /\ ret.value.pv_benefits = PresentValue(liabs.benefit_payments)
       /\ ret.value.pv_surrenders = PresentValue(liabs.surrender_benefits)
       /\ ret.value.pv_expenses = PresentValue(liabs.expenses)
       /\ ret.value.pv_premiums = PresentValue(liabs.premium_income)
       /\ ret.value.bel_gross
            = ret.value.pv_benefits + ret.value.pv_surrenders + ret.value.pv_expenses
       /\ ret.value.bel_net = ret.value.bel_gross - ret.value.pv_premiums
       /\ ret.value.risk_margin = MulR(ret.value.bel_gross, Dec(6, 100))
       /\ ret.value.technical_provisions = ret.value.bel_net + ret.value.risk_margin
       /\ Len(curve.deflator) = Len(years)

\* calculation_BEL returned a result over three years with benefits,
\* surrenders, expenses and premiums all positive
C26_BelOverThreeYears ==
    /\ ret.op = "calculation_BEL"
    /\ DOMAIN ret.value # {}
    /\ Len(years) = 3
    /\ ret.value.pv_benefits > 0
    /\ ret.value.pv_surrenders > 0
    /\ ret.value.pv_expenses > 0
    /\ ret.value.pv_premiums > ret.value.bel_gross

CurveArrays ==
    {"deflator", "spot_rates", "discount_rates", "forward_rates_selected", "volatility_selected"}

\* C27: a call of report_discount_rate that fails (returns the empty table)
\* creates and changes none of deflator, spot_rates, discount_rates,
\* forward_rates_selected and volatility_selected; a call that succeeds leaves
\* all five on the instance, each of length len(years), as the columns of the
\* table it returned, with the forward rates and the volatilities read for one
\* and the same maturity.
C27_CurveUpdatedAtomically ==
    [][ ret'.op = "report_discount_rate"
        => IF Len(ret'.value.index) = 0
           THEN /\ curve' = curve
                /\ attrs' \cap CurveArrays = attrs \cap CurveArrays
           ELSE /\ CurveArrays \subseteq attrs'
                /\ \A a \in CurveArrays : Len(curve'[a]) = Len(years')
                /\ curve'.deflator = ret'.value.col["Deflator"]
                /\ curve'.spot_rates = ret'.value.col["Spot Rate"]
                /\ curve'.discount_rates = ret'.value.col["Discount Rate"]
                /\ curve'.forward_rates_selected = ret'.value.col["Forward Rate"]
                /\ curve'.volatility_selected = ret'.value.col["Volatility"]
                /\ \E m \in {"5Y", "30Y"} :
                      /\ curve'.forward_rates_selected = RatesRead(market.forward_rates, years, m)
                      /\ curve'.volatility_selected
                           = VolatilityRead(market.forward_rates, years, m)
                /\ curve'.spot_rates
                     = SpotRates(curve'.forward_rates_selected, Len(years) - 1) ]_vars

\* report_discount_rate failed on an instance that holds the curve of an
\* earlier call
C27_FailedWithCurveCached ==
    /\ ret.op = "report_discount_rate"
    /\ Len(ret.value.index) = 0
    /\ CurveArrays \subseteq attrs
    /\ Len(curve.deflator) = 3

\* C28: every non-empty table of report_asset_liability is consistent with one
\* curve: for t >= 1 the bond market value behind 'Assets MV' is
\* bonds_mv[0] * (1 - max(1, contracts_maturity - t)
\*                     * (AssetYield[t] - AssetYield[0]))
\* for the 'Asset Yield' column of the same table.
C28_TableConsistentWithOneCurve ==
    (ret.op = "report_asset_liability" /\ Len(ret.value.index) > 0)
        => \A t \in 1..(Len(years) - 1) :
              At(assets.bonds_mv, t)
                = MulR(At(assets.bonds_mv, 0),
                       One + (-Max(1, cfg.contracts_maturity - t))
                               * (At(ret.value.col["Asset Yield"], t)
                                    - At(ret.value.col["Asset Yield"], 0)))

\* C29: a failed asset projection (one that returns {}) leaves the asset
\* arrays as they were, and total_assets_booked_value, total_assets_market_value
\* and a non-empty report_asset_liability table return totals of a completed
\* projection only.
C29_FailedProjectionLeavesNoTrace ==
    [][ /\ (ret'.op = "assets_variables_projection" /\ DOMAIN ret'.value = {})
             => /\ assets' = assets
                /\ attrs' \cap AssetArrays = attrs \cap AssetArrays
        /\ ret'.op \in {"total_assets_booked_value", "total_assets_market_value"}
             => "asset_projections" \in attrs'
        /\ (ret'.op = "report_asset_liability" /\ Len(ret'.value.index) > 0)
             => "asset_projections" \in attrs' ]_vars

\* C30: the parameter dialog applies its changes atomically: when validate
\* rejects the form no parameter of the instance has been modified; when it
\* accepts the form the dialog closes, every one of the nine fields holds a
\* value in its range and the fields not typed over hold the texts of the
\* dialog; no other attribute of the configuration is touched either way; and
\* Cancel closes the dialog without modifying the instance.
C30_DialogAppliesAtomically ==
    [][ /\ (ret'.op = "validate" /\ changes' = changes + 1)
             => /\ \A f \in DOMAIN cfg \ Columns(DialogFields) : cfg'[f] = cfg[f]
                /\ IF ret'.value
                   THEN /\ dialog' = NoDialog
                        /\ \A f \in Columns(DialogFields) : InRange(f, cfg'[f])
                        /\ \A f \in Columns(DialogFields)
                                      \ {"contracts_maturity", "insured_premium", "average_age"} :
                              cfg'[f] = dialog[f].v
                   ELSE cfg' = cfg
        /\ (dialog # NoDialog /\ dialog' = NoDialog /\ changes' = changes)
             => UNCHANGED <<cfg, years, attrs, market, curve, assets, liabs, results, rng>>
      ]_vars

====
